---- MODULE Spec2Model ----
(***************************************************************************)
(* A model of the ftsim discrete-event kernel: the Simulation struct (its  *)
(* clock, event queue, world, RNG, id generator, telemetry counters and    *)
(* execution mode), the node runtime with its timer book, the network send *)
(* path with its per-link fault model, the scenario scheduler and the      *)
(* control channel.  The kernel is single-threaded: every handler runs to  *)
(* completion, so each handler is an operator from a Simulation value to   *)
(* the Simulation value it leaves behind, and an action applies one.       *)
(*                                                                         *)
(* A hosted protocol is any state machine written against ProtoCtx.  What  *)
(* a callback does to the kernel is the sequence of ProtoCtx calls it      *)
(* makes, so a callback is modelled by such a sequence (at most MaxOps     *)
(* calls), chosen freely at each invocation.                               *)
(*                                                                         *)
(* SimTime is u128 in the source.  The model keeps the arithmetic of a     *)
(* fixed-width unsigned word but of TimeBits bits, so that MAX_SIM_TIME is *)
(* 2^TimeBits - 1; an unchecked `+` on SimTime panics in a build with      *)
(* overflow checks and wraps in a build without (field overflow_checks).   *)
(* Fields of the Simulation value whose names start with h_ are history    *)
(* (ghost) fields: they record what happened and influence nothing.        *)
(***************************************************************************)
EXTENDS Integers, Sequences, FiniteSets, TLC

VARIABLES
    sim,         \* the Simulation value (sim.rs, struct Simulation)
    pc,          \* where ftsim-cli's exec is: "new", "init", "run", "done"
    control_rx,  \* control messages in flight from the TUI to the kernel
    ctl_sent,    \* how many control messages the TUI has sent
    stop_at,     \* Some(T) under run_until(T), None under run()
    use_tui,     \* whether the run has a TUI thread (not --headless)
    twin,        \* a second run of the same seed and scenario (or Unused)
    net,         \* a Net on its own: its links (net/mod.rs, struct Net)
    store,       \* one node's store on its own: MemStore and StoreFaultModel
    app          \* the TUI's App (ftsim-tui app.rs), where a specification has one

vars == <<sim, pc, control_rx, ctl_sent, stop_at, use_tui, twin, net, store, app>>

---------------------------------------------------------------------------
(* Bounds of the model *)

NumNodes == 2
MaxEvents == 3
MaxTicks == 2
MaxOps == 2
MaxCtl == 1
MaxSeed == 0
TimeBits == 29
NodeIdBits == 8

(* Program constants *)

SIM_EPOCH == 0
MAX_SIM_TIME == 2^TimeBits - 1
NODE_ID_MAX == 2^NodeIdBits - 1
DefaultBaseDelay == 10
DefaultJitterLo == 0
DefaultJitterHi == 2
SnapshotPeriodMs == 50
NsPerMs == 1000000
PrioFault == 0
PrioTimer == 1
PrioDelivery == 2
PrioUi == 255

Nodes == 0 .. (NumNodes - 1)
None == [some |-> FALSE, v |-> 0]
Some(x) == [some |-> TRUE, v |-> x]
(* a part of the state the specification at hand does not use *)
Unused == [none |-> TRUE]

(* The randomness of one u64 draw, as RngMod equally likely values; a     *)
(* Bernoulli probability p is the number of values below p * RngMod.      *)
RngMod == 8
(* the length in bytes of the payloads the protocol of the model sends *)
PayloadLen == 4
ProbZero == 0
ProbOne == RngMod

---------------------------------------------------------------------------
(* ftsim-types::time *)

SaturatingAdd(a, b) == IF a + b > MAX_SIM_TIME THEN MAX_SIM_TIME ELSE a + b

(* An unchecked `a + b` on SimTime: the wrapped sum, and whether it        *)
(* overflowed.                                                             *)
WrappingAdd(a, b) == (a + b) % (MAX_SIM_TIME + 1)

Overflows(a, b) == a + b > MAX_SIM_TIME

---------------------------------------------------------------------------
(* ftsim-engine::events *)

EventDiscriminant_fault == <<PrioFault, NODE_ID_MAX>>
EventDiscriminant_timer(src) == <<PrioTimer, src>>
EventDiscriminant_delivery(src) == <<PrioDelivery, src>>
EventDiscriminant_ui == <<PrioUi, NODE_ID_MAX>>

DiscLess(a, b) == a[1] < b[1] \/ (a[1] = b[1] /\ a[2] < b[2])

(* a pops before b: Ord for Queued reverses (time, insert_seq,             *)
(* discriminant), and BinaryHeap::pop returns the greatest element.        *)
QueuePeek(q) ==
    LET QueuedBefore(a, b) ==
            \/ a.time < b.time
            \/ a.time = b.time /\ a.insert_seq < b.insert_seq
            \/ a.time = b.time /\ a.insert_seq = b.insert_seq
                 /\ DiscLess(a.discriminant, b.discriminant)
    IN CHOOSE e \in q : \A o \in q \ {e} : QueuedBefore(e, o)

---------------------------------------------------------------------------
(* ftsim-engine::rng *)

(* The seeded ChaCha20 stream: the word at position pos of the stream of   *)
(* seed.  Any fixed function of (seed, pos) serves; this one gives the     *)
(* seeds of the model different jitter sequences.                          *)
RngWord(seed, pos) == ((seed + 1) * (pos + 2) * 3 + (pos \div 3)) % RngMod

record_draw(m, site) ==
    IF site \in DOMAIN m THEN [m EXCEPT ![site] = @ + 1] ELSE m @@ (site :> 1)

(* A generator seeded from the process's entropy rather than from the     *)
(* scenario seed alone.                                                    *)
NextU64_entropy(s, site) ==
    [s |-> [s EXCEPT !.recorder = record_draw(@, site), !.rng.pos = @ + 1],
     v |-> RngWord(s.rng.seed + s.h_wall, s.rng.pos)]

(* RngDiscipline::next_u64: record the draw, then advance the stream. *)
NextU64(s, site) ==
    [s |-> [s EXCEPT !.recorder = record_draw(@, site), !.rng.pos = @ + 1],
     v |-> RngWord(s.rng.seed, s.rng.pos)]

(* Rng::gen_bool(p): a p outside [0, 1] panics; p = 1 returns true without *)
(* a draw; otherwise one u64 is drawn and compared with p scaled to the    *)
(* word range.                                                             *)
GenBool(s, site, p) ==
    IF p < ProbZero \/ p > ProbOne
    THEN [s |-> [s EXCEPT !.panic = "p is outside range [0.0, 1.0]"], v |-> FALSE]
    ELSE IF p = ProbOne THEN [s |-> s, v |-> TRUE]
    ELSE LET d == NextU64(s, site) IN [s |-> d.s, v |-> d.v < p]

(* Rng::gen_range(lo..=hi), lo < hi. *)
GenRange(s, site, lo, hi) ==
    LET d == NextU64(s, site) IN [s |-> d.s, v |-> lo + (d.v % (hi - lo + 1))]

---------------------------------------------------------------------------
(* ftsim-engine::sim, the pieces every handler uses *)

Panic(s, why) == [s EXCEPT !.panic = why]

(* A handler goes on only while the process has not panicked and the run   *)
(* is inside the model's bounds.                                           *)
Live(s) == s.panic = "none" /\ ~s.over

(* Simulation::schedule_at: the next event id and insertion sequence       *)
(* number, and a push.  `when` is not compared with the clock.             *)
schedule_at(s, when, ev, discriminant) ==
    IF ~Live(s) THEN s
    ELSE IF ev.type = "UiSnapshotTick" /\ s.h_ticks >= MaxTicks
    THEN [s EXCEPT !.over = TRUE]
    ELSE IF ev.type # "UiSnapshotTick" /\ s.id_gen.event_id - s.h_ticks >= MaxEvents
    THEN [s EXCEPT !.over = TRUE]
    ELSE [s EXCEPT
            !.h_ticks = IF ev.type = "UiSnapshotTick" THEN @ + 1 ELSE @,
            !.queue = @ \cup {[id |-> s.id_gen.event_id,
                               time |-> when,
                               insert_seq |-> s.id_gen.insertion_seq,
                               discriminant |-> discriminant,
                               payload |-> ev]},
            !.id_gen.event_id = @ + 1,
            !.id_gen.insertion_seq = @ + 1]

(* `clock + d` as the source writes it, then schedule_at. *)
schedule_after(s, d, ev, discriminant) ==
    IF ~Live(s) THEN s
    ELSE IF Overflows(s.clock, d) /\ s.overflow_checks
    THEN Panic(s, "attempt to add with overflow")
    ELSE schedule_at(s, WrappingAdd(s.clock, d), ev, discriminant)

increment_metric(s, metric) ==
    [s EXCEPT !.metrics[metric] = @ + 1]

---------------------------------------------------------------------------
(* ftsim-engine::net *)

(* Net::from_topology(FullMesh): one link per ordered pair, ids in         *)
(* construction order, each with LinkFaultModel::default().                *)
LinkIdOf(num_nodes, src, dst) ==
    src * (num_nodes - 1) + (IF dst > src THEN dst - 1 ELSE dst)

LinkFaultModel_default ==
    [drop |-> ProbZero, duplicate |-> ProbZero, corrupt |-> ProbZero,
     base_delay |-> [kind |-> "Const", lo |-> DefaultBaseDelay, hi |-> DefaultBaseDelay],
     jitter |-> [kind |-> "Uniform", lo |-> DefaultJitterLo, hi |-> DefaultJitterHi],
     partitioned |-> FALSE, mtu_bytes |-> None]

LinkIds == 0 .. (NumNodes * (NumNodes - 1) - 1)

Net_from_topology(num_nodes) ==
    [id \in 0 .. (num_nodes * (num_nodes - 1) - 1) |->
        LET e == CHOOSE p \in (0 .. (num_nodes - 1)) \X (0 .. (num_nodes - 1)) :
                     p[1] # p[2] /\ LinkIdOf(num_nodes, p[1], p[2]) = id
        IN [id |-> id, src |-> e[1], dst |-> e[2], faults |-> LinkFaultModel_default]]

(* faults::sample_delay for the Const and Uniform specs. *)
sample_delay(s, site, spec) ==
    IF spec.kind = "Const" THEN [s |-> s, v |-> spec.lo]
    ELSE IF spec.lo >= spec.hi THEN [s |-> s, v |-> spec.lo]
    ELSE GenRange(s, site, spec.lo, spec.hi)

(* faults::trial *)
trial(s, site, p) == GenBool(s, site, p)

(* The part of Net::send after the drop checks: the delays, the Deliver    *)
(* event, and the duplicate.                                               *)
DeliverOf(env, link) == [type |-> "Deliver", env |-> env, link_id |-> link.id]

(* The duplicate: its own delay drawn from base_delay, then scheduled. *)
NetSendDupAt(dd, env, link) ==
    schedule_after(dd.s, dd.v, DeliverOf(env, link), EventDiscriminant_delivery(env.src))

(* A duplicate scheduled with the lower bound of base_delay, no draw. *)
NetSendDup_nodraw(dup, env, link) ==
    IF dup.v
    THEN schedule_after(dup.s, link.faults.base_delay.lo, DeliverOf(env, link),
                        EventDiscriminant_delivery(env.src))
    ELSE dup.s

NetSendDup(dup, env, link) ==
    IF dup.v
    THEN NetSendDupAt(sample_delay(dup.s, "net.delay.dup", link.faults.base_delay),
                      env, link)
    ELSE dup.s

(* The duplicate trial, once the delivery is scheduled. *)
NetSendScheduled(s1, env, link) ==
    IF ~Live(s1) THEN s1
    ELSE NetSendDup(trial(s1, "net.duplicate", link.faults.duplicate), env, link)

NetSendJitter(j, base, env, link) ==
    NetSendScheduled(schedule_after(j.s, base + j.v, DeliverOf(env, link),
                                    EventDiscriminant_delivery(env.src)),
                     env, link)

NetSendBase(b, env, link) ==
    NetSendJitter(sample_delay(b.s, "net.delay.jitter", link.faults.jitter),
                  b.v, env, link)

(* Net::send once the message is neither partitioned away nor dropped. *)
NetSendDeliver(s, env, link) ==
    NetSendBase(sample_delay(s, "net.delay.base", link.faults.base_delay), env, link)

(* Net::send *)
(* A send path that does not look at the partitioned flag. *)
Net_send_unpartitioned(s, env) ==
    LET found == {id \in LinkIds :
                     s.links[id].src = env.src /\ s.links[id].dst = env.dst}
    IN IF found = {} THEN s
       ELSE LET link == s.links[CHOOSE id \in found : TRUE]
                dr == trial(s, "net.drop", link.faults.drop)
            IN IF dr.v \/ dr.s.panic # "none" THEN dr.s
               ELSE NetSendDeliver(dr.s, env, link)

(* A Net::send that delivers over a default link when it finds none. *)
Net_send_loopback(s, env) ==
    LET found == {id \in LinkIds :
                     s.links[id].src = env.src /\ s.links[id].dst = env.dst}
    IN IF found = {}
       THEN NetSendDeliver([s EXCEPT !.h_outcome = "scheduled"], env,
                           [id |-> 0, src |-> env.src, dst |-> env.dst,
                            faults |-> LinkFaultModel_default])
       ELSE LET link == s.links[CHOOSE id \in found : TRUE]
                dr == trial(s, "net.drop", link.faults.drop)
            IN IF link.faults.partitioned THEN [s EXCEPT !.h_outcome = "partition"]
               ELSE IF dr.s.panic # "none" THEN dr.s
               ELSE IF dr.v THEN [dr.s EXCEPT !.h_outcome = "drop_probability"]
               ELSE NetSendDeliver([dr.s EXCEPT !.h_outcome = "scheduled"], env, link)

Net_send(s, env) ==
    LET found == {id \in LinkIds :
                     s.links[id].src = env.src /\ s.links[id].dst = env.dst}
    IN IF found = {} THEN [s EXCEPT !.h_outcome = "no_link"]
       ELSE LET link == s.links[CHOOSE id \in found : TRUE]
                dr == trial(s, "net.drop", link.faults.drop)
            IN IF link.faults.partitioned THEN [s EXCEPT !.h_outcome = "partition"]
               ELSE IF dr.s.panic # "none" THEN dr.s
               ELSE IF dr.v THEN [dr.s EXCEPT !.h_outcome = "drop_probability"]
               ELSE NetSendDeliver([dr.s EXCEPT !.h_outcome = "scheduled"], env, link)

(* Index of the first set holding n, 0 when none does. *)
FirstSet(sets, n) ==
    IF \E i \in 1 .. Len(sets) : n \in sets[i]
    THEN CHOOSE i \in 1 .. Len(sets) :
             n \in sets[i] /\ \A k \in 1 .. (i - 1) : n \notin sets[k]
    ELSE 0

(* Net::set_partition *)
(* A set_partition that assigns the flag of every link. *)
set_partition_assign(links, sets) ==
    [id \in DOMAIN links |->
        LET s1 == FirstSet(sets, links[id].src)
            s2 == FirstSet(sets, links[id].dst)
        IN [links[id] EXCEPT !.faults.partitioned = s1 # 0 /\ s2 # 0 /\ s1 # s2]]

set_partition(links, sets) ==
    [id \in DOMAIN links |->
        LET s1 == FirstSet(sets, links[id].src)
            s2 == FirstSet(sets, links[id].dst)
        IN IF s1 # 0 /\ s2 # 0 /\ s1 # s2
           THEN [links[id] EXCEPT !.faults.partitioned = TRUE]
           ELSE links[id]]

(* Net::heal_partition *)
(* A heal that inverts the flags. *)
heal_partition_flip(links) ==
    [id \in DOMAIN links |-> [links[id] EXCEPT !.faults.partitioned = ~@]]

heal_partition(links) ==
    [id \in DOMAIN links |-> [links[id] EXCEPT !.faults.partitioned = FALSE]]

---------------------------------------------------------------------------
(* ftsim-engine::node::timers *)

TimerWheel_new == [active_timers |-> {}, canceled_timers |-> {}]

add_timer(tw, timer_id) == [tw EXCEPT !.active_timers = @ \cup {timer_id}]

(* TimerWheel::cancel_timer: the wheel it leaves, and what it returns. *)
TimerWheel_cancel_timer(tw, timer_id) ==
    IF timer_id \in tw.active_timers
    THEN [tw |-> [tw EXCEPT !.canceled_timers = @ \cup {timer_id}], v |-> TRUE]
    ELSE [tw |-> tw, v |-> FALSE]

(* A fire_timer that leaves the id in the cancelled set. *)
fire_timer_marked(tw, timer_id) ==
    [tw |-> [active_timers |-> tw.active_timers \ {timer_id},
             canceled_timers |-> tw.canceled_timers],
     v |-> timer_id \notin tw.canceled_timers]

(* TimerWheel::fire_timer: the wheel it leaves, and what it returns. *)
fire_timer(tw, timer_id) ==
    [tw |-> [active_timers |-> tw.active_timers \ {timer_id},
             canceled_timers |-> tw.canceled_timers \ {timer_id}],
     v |-> timer_id \notin tw.canceled_timers]

(* TimerWheel::clear *)
TimerWheel_clear(tw) == [active_timers |-> {}, canceled_timers |-> {}]

---------------------------------------------------------------------------
(* The protocol side of ProtoCtx (sim.rs, impl ProtoCtx for EngineCtx) *)

InCrashWindow(s, n) == \E p \in s.h_open : p[1] = n

(* The record of one send_raw: the envelope, the clock and the link at the *)
(* call, how Net::send ended (h_outcome: no_link, partition,               *)
(* drop_probability or scheduled; panicked when it did not return) and the *)
(* events it enqueued.                                                     *)
SendRecorded(s, r, env) ==
    (* The links from env.src to env.dst (at most one in a mesh). *)
    LET LinksFor ==
        {s.links[id] : id \in {i \in DOMAIN s.links :
                                  s.links[i].src = env.src /\ s.links[i].dst = env.dst}}
    IN
    IF r.over THEN r
    ELSE [r EXCEPT !.h_sends = @ \cup
              {[env |-> env, clock |-> s.clock, links |-> LinksFor,
                outcome |-> IF r.panic # "none" THEN "panicked" ELSE r.h_outcome,
                events |-> r.queue \ s.queue,
                draws |-> [site \in {"net.drop", "net.delay.base", "net.delay.jitter",
                                     "net.duplicate", "net.delay.dup"} |->
                              (IF site \in DOMAIN r.recorder THEN r.recorder[site] ELSE 0)
                              - (IF site \in DOMAIN s.recorder THEN s.recorder[site] ELSE 0)],
                msg_ids |-> r.id_gen.msg_id - s.id_gen.msg_id]}]

(* EngineCtx::send_raw with current_node_id = src *)
(* A send_raw that does not count the message in messages_sent. *)
send_raw_uncounted(s, src, dst) ==
    IF ~Live(s) THEN s
    ELSE SendRecorded(
             s,
             Net_send([s EXCEPT !.id_gen.msg_id = @ + 1,
                                !.h_send_in_crash = @ \/ InCrashWindow(s, src)],
                      [src |-> src, dst |-> dst, msg_id |-> s.id_gen.msg_id,
                       create_time |-> s.clock, payload_len |-> PayloadLen]),
             [src |-> src, dst |-> dst, msg_id |-> s.id_gen.msg_id,
              create_time |-> s.clock, payload_len |-> PayloadLen])

send_raw(s, src, dst) ==
    IF ~Live(s) THEN s
    ELSE SendRecorded(
             s,
             Net_send(increment_metric(
                          [s EXCEPT !.id_gen.msg_id = @ + 1,
                                    !.h_send_in_crash = @ \/ InCrashWindow(s, src)],
                          "messages_sent"),
                      [src |-> src, dst |-> dst, msg_id |-> s.id_gen.msg_id,
                       create_time |-> s.clock, payload_len |-> PayloadLen]),
             [src |-> src, dst |-> dst, msg_id |-> s.id_gen.msg_id,
              create_time |-> s.clock, payload_len |-> PayloadLen])

(* A set_timer that takes `after` as an absolute fire time. *)
set_timer_absolute(s, n, after) ==
    IF ~Live(s) THEN s
    ELSE LET fire_at == after
             timer_id == s.id_gen.timer_id
             s1 == [s EXCEPT !.id_gen.timer_id = @ + 1]
             s2 == schedule_at(s1, fire_at,
                               [type |-> "TimerFired", node_id |-> n,
                                timer_id |-> timer_id],
                               EventDiscriminant_timer(n))
         IN IF ~Live(s2) THEN s2
            ELSE [s2 EXCEPT !.nodes[n].timers = add_timer(@, timer_id)]

(* Node::set_timer, reached through EngineCtx::set_timer *)
set_timer(s, n, after) ==
    IF ~Live(s) THEN s
    ELSE LET fire_at == SaturatingAdd(s.clock, after)
             timer_id == s.id_gen.timer_id
             s1 == [s EXCEPT !.id_gen.timer_id = @ + 1]
             s2 == schedule_at(s1, fire_at,
                               [type |-> "TimerFired", node_id |-> n,
                                timer_id |-> timer_id],
                               EventDiscriminant_timer(n))
         IN IF ~Live(s2) THEN s2
            ELSE [s2 EXCEPT !.nodes[n].timers = add_timer(@, timer_id)]

(* Node::cancel_timer, reached through EngineCtx::cancel_timer *)
cancel_timer(s, n, timer_id) ==
    IF ~Live(s) THEN s
    ELSE LET r == TimerWheel_cancel_timer(s.nodes[n].timers, timer_id)
         IN [s EXCEPT !.nodes[n].timers = r.tw,
                      !.h_cancel_true = IF r.v THEN @ \cup {<<n, timer_id>>} ELSE @]

(* The timers of node n that are set and neither fired, cancelled nor     *)
(* cleared, and the k-th oldest of them.                                   *)
LiveTimers(s, n) ==
    s.nodes[n].timers.active_timers \ s.nodes[n].timers.canceled_timers

(* EngineCtx::now with current_node_id = n: the clock plus the node's      *)
(* skew, saturating; `-skew` is a checked negation in a build with         *)
(* overflow checks and wraps to itself for the least skew otherwise.  The  *)
(* value returned is kept in h_now.                                        *)
now(s, n) ==
    LET skew == s.nodes[n].clock_skew_ns
    IN IF ~Live(s) THEN s
       ELSE IF skew >= 0
       THEN [s EXCEPT !.h_now = [node |-> n, clock |-> s.clock, skew |-> skew,
                                 v |-> SaturatingAdd(s.clock, skew)]]
       ELSE IF skew = -(2 ^ (TimeBits - 1)) /\ s.overflow_checks
       THEN Panic(s, "attempt to negate with overflow")
       ELSE [s EXCEPT !.h_now = [node |-> n, clock |-> s.clock, skew |-> skew,
                                 v |-> IF -skew > s.clock THEN 0 ELSE s.clock + skew]]

(* One ProtoCtx call made by the protocol on node n.  cancel_timer is      *)
(* called with the id of one of the node's live timers, named by its age.  *)
ProtoCall(s, n, op) ==
    IF op.op = "send_raw" THEN send_raw(s, n, op.arg)
    ELSE IF op.op = "now" THEN now(s, n)
    ELSE IF op.op = "set_timer" THEN set_timer(s, n, op.arg)
    ELSE IF Cardinality(LiveTimers(s, n)) < op.arg THEN [s EXCEPT !.over = TRUE]
    ELSE cancel_timer(s, n, CHOOSE x \in LiveTimers(s, n) :
                                   Cardinality({y \in LiveTimers(s, n) : y < x}) = op.arg - 1)

(* A callback of the protocol on node n: its ProtoCtx calls, in order. *)
RECURSIVE Callback(_, _, _)
Callback(s, n, ops) ==
    IF ops = <<>> \/ ~Live(s) THEN s
    ELSE Callback(ProtoCall(s, n, Head(ops)), n, Tail(ops))

---------------------------------------------------------------------------
(* ftsim-engine::node::runtime *)

StoreFaultModel_default ==
    [fsync_fail_rate |-> ProbZero, fsync_delay_rate |-> ProbZero,
     write_error_rate |-> ProbZero, read_error_rate |-> ProbZero,
     torn_write_rate |-> ProbZero, stale_read_rate |-> ProbZero]

Node_new(id) ==
    [id |-> id, status |-> "Up", clock_skew_ns |-> 0,
     store_faults |-> StoreFaultModel_default,
     timers |-> TimerWheel_new, byzantine |-> FALSE]

(* A handle_message without the status check. *)
handle_message_unchecked(s, env, ops) ==
    Callback([s EXCEPT !.h_on_message = @ + 1], env.dst, ops)

(* Node::handle_message *)
handle_message(s, env, ops) ==
    IF s.nodes[env.dst].status # "Up" THEN [s EXCEPT !.h_dropped = @ + 1]
    ELSE Callback([s EXCEPT !.h_on_message = @ + 1], env.dst, ops)

(* Node::handle_timer *)
handle_timer(s, n, timer_id, ops) ==
    LET up == s.nodes[n].status = "Up"
        r == fire_timer(s.nodes[n].timers, timer_id)
        seen == [node |-> n, timer_id |-> timer_id, up |-> up,
                 live |-> timer_id \in LiveTimers(s, n), invoked |-> up /\ r.v]
        s0 == [s EXCEPT !.h_last_timer = seen]
    IN IF ~up THEN s0
       ELSE LET s1 == [s0 EXCEPT !.nodes[n].timers = r.tw]
            IN IF ~r.v THEN s1
               ELSE Callback(
                        [s1 EXCEPT
                            !.h_on_timer = @ \cup {<<n, timer_id>>},
                            !.h_timer_after_cancel =
                                @ \/ <<n, timer_id>> \in s.h_cancel_true,
                            !.h_timer_in_crash = @ \/ InCrashWindow(s, n)],
                        n, ops)

(* Node::apply_fault.  ops1 and ops2 are the protocol's callbacks: for      *)
(* Restart its init and then on_fault(NodeRecovered), else its on_fault.   *)
apply_fault(s, n, f, ops1, ops2) ==
    IF f.type \notin {"Crash", "Restart", "ClockSkew", "StoreFault", "ByzantineFlip"}
    THEN s
    ELSE Callback(
             Callback(
                 IF f.type = "Crash"
                 THEN [s EXCEPT !.nodes[n].status = "Down",
                                !.nodes[n].timers = TimerWheel_clear(@)]
                 ELSE IF f.type = "Restart"
                 THEN [s EXCEPT !.nodes[n].status = "Up"]
                 ELSE IF f.type = "ClockSkew"
                 THEN [s EXCEPT !.nodes[n].clock_skew_ns = f.skew_ns]
                 ELSE IF f.type = "ByzantineFlip"
                 THEN [s EXCEPT !.nodes[n].byzantine = f.enabled]
                 ELSE s,
                 n, ops1),
             n, IF f.type = "Restart" THEN ops2 ELSE <<>>)

---------------------------------------------------------------------------
(* ftsim-engine::sim, fault dispatch *)

FaultRestart(n) == [type |-> "Restart", node_id |-> n]

(* Crash arm of Simulation::handle_fault; id is the Crash event's id.      *)
(* After the node's apply_fault comes the paired Restart of a finite       *)
(* Crash, with the record that this Restart event is the pair of Crash     *)
(* event id.                                                               *)
HandleCrash(s, id, f, ops1) ==
    LET s1 == apply_fault([s EXCEPT !.h_open = IF f.duration < MAX_SIM_TIME
                                               THEN @ \cup {<<f.node_id, id>>} ELSE @],
                          f.node_id, f, ops1, <<>>)
    IN IF ~(f.duration < MAX_SIM_TIME) \/ ~Live(s1) THEN s1
       ELSE LET s2 == schedule_after(s1, f.duration,
                                     [type |-> "Fault",
                                      fault |-> FaultRestart(f.node_id)],
                                     EventDiscriminant_fault)
            IN IF ~Live(s2) THEN s2
               ELSE [s2 EXCEPT
                        !.h_pair = @ \cup {<<s1.id_gen.event_id, f.node_id, id>>}]

(* Restart arm; id is the Restart event's id. *)
HandleRestart(s, id, f, ops1, ops2) ==
    LET n == f.node_id
        closed == {<<p[2], p[3]>> : p \in {q \in s.h_pair : q[1] = id}}
    IN apply_fault([s EXCEPT !.h_open = @ \ closed], n, f, ops1, ops2)

RingCap == 100

(* TelemetryBus::set_current_time(time, event_id) *)
set_current_time(s, time, event_id) ==
    [s EXCEPT !.telemetry.time = time, !.telemetry.event_id = event_id]

(* log_event that evicts only once the ring is over its capacity *)
log_event_late(s, event_type, details, node_id) ==
    LET ctx == s.telemetry
        log_snap == [event_id |-> ctx.event_id, time |-> ctx.time,
                     event_type |-> event_type, details |-> details,
                     node_id |-> node_id]
        kept == IF Len(ctx.recent_events) > RingCap
                   THEN Tail(ctx.recent_events) ELSE ctx.recent_events
    IN [s EXCEPT !.telemetry.recent_events = Append(kept, log_snap),
                 !.h_logged = Append(@, log_snap)]

(* TelemetryBus::log_event; h_logged keeps every summary ever logged *)
log_event(s, event_type, details, node_id) ==
    LET ctx == s.telemetry
        log_snap == [event_id |-> ctx.event_id, time |-> ctx.time,
                     event_type |-> event_type, details |-> details,
                     node_id |-> node_id]
        kept == IF Len(ctx.recent_events) >= RingCap
                   THEN Tail(ctx.recent_events) ELSE ctx.recent_events
    IN [s EXCEPT !.telemetry.recent_events = Append(kept, log_snap),
                 !.h_logged = Append(@, log_snap)]

(* A LinkModelUpdate that rebuilds the link's fault model from the default. *)
HandleLinkModelUpdate_rebuilt(s, f) ==
    IF f.link_id \notin DOMAIN s.links THEN s
    ELSE IF f.change = "SetDelay"
    THEN [s EXCEPT !.links[f.link_id].faults =
                       [LinkFaultModel_default EXCEPT !.base_delay = f.spec]]
    ELSE IF f.change = "SetDrop"
    THEN [s EXCEPT !.links[f.link_id].faults = [LinkFaultModel_default EXCEPT !.drop = f.p]]
    ELSE IF f.change = "SetDuplicate"
    THEN [s EXCEPT !.links[f.link_id].faults =
                       [LinkFaultModel_default EXCEPT !.duplicate = f.p]]
    ELSE [s EXCEPT !.links[f.link_id].faults = [LinkFaultModel_default EXCEPT !.corrupt = f.p]]

(* LinkModelUpdate arm *)
HandleLinkModelUpdate(s, f) ==
    IF f.link_id \notin DOMAIN s.links THEN s
    ELSE IF f.change = "SetDelay"
    THEN [s EXCEPT !.links[f.link_id].faults.base_delay = f.spec]
    ELSE IF f.change = "SetDrop"
    THEN [s EXCEPT !.links[f.link_id].faults.drop = f.p]
    ELSE IF f.change = "SetDuplicate"
    THEN [s EXCEPT !.links[f.link_id].faults.duplicate = f.p]
    ELSE [s EXCEPT !.links[f.link_id].faults.corrupt = f.p]

(* A hex string is a sequence of characters; Utf8Len is the number of      *)
(* bytes a character takes in the str.  "e'" stands for a two-byte letter. *)
HexDigits == {"0", "a", "F"}
Utf8Len(c) == IF c = "e'" THEN 2 ELSE 1

(* str::trim: the string from its first to its last character that is not *)
(* white space                                                             *)
trim(cs) ==
    LET kept == {i \in DOMAIN cs : cs[i] # " "}
    IN IF kept = {} THEN <<>>
       ELSE SubSeq(cs, CHOOSE i \in kept : \A j \in kept : i <= j,
                   CHOOSE i \in kept : \A j \in kept : i >= j)

(* u8::from_str_radix(pair, 16): a leading '+' before at least one digit   *)
(* is skipped, every other character has to be a digit of the radix.       *)
u8_from_str_radix(pair) ==
    LET digits == IF Len(pair) > 1 /\ Head(pair) = "+" THEN Tail(pair) ELSE pair
        HexValue(c) == IF c = "0" THEN 0 ELSE IF c = "a" THEN 10 ELSE 15
    IN IF \E i \in DOMAIN digits : digits[i] \notin HexDigits
       THEN [ok |-> FALSE, v |-> 0]
       ELSE IF Len(digits) = 1 THEN [ok |-> TRUE, v |-> HexValue(digits[1])]
       ELSE [ok |-> TRUE, v |-> 16 * HexValue(digits[1]) + HexValue(digits[2])]

(* The loop of decode_hex from a character boundary on: the slice          *)
(* &hex_str[i..i+2] panics when i+2 falls inside a character.              *)
RECURSIVE decode_pairs(_, _)
decode_pairs(cs, bytes) ==
    IF cs = <<>> THEN [ok |-> TRUE, panic |-> FALSE, bytes |-> bytes]
    ELSE IF Utf8Len(cs[1]) = 1 /\ Utf8Len(cs[2]) = 2
    THEN [ok |-> FALSE, panic |-> TRUE, bytes |-> <<>>]
    ELSE LET n == IF Utf8Len(cs[1]) = 2 THEN 1 ELSE 2
             r == u8_from_str_radix(SubSeq(cs, 1, n))
         IN IF r.ok THEN decode_pairs(SubSeq(cs, n + 1, Len(cs)), Append(bytes, r.v))
            ELSE [ok |-> FALSE, panic |-> FALSE, bytes |-> <<>>]

(* decode_hex *)
decode_hex(hex_str) ==
    LET cs == trim(hex_str)
        len == Len(cs) + Cardinality({i \in DOMAIN cs : Utf8Len(cs[i]) = 2})
    IN
    IF len % 2 # 0 THEN [ok |-> FALSE, panic |-> FALSE, bytes |-> <<>>]
    ELSE decode_pairs(cs, <<>>)

(* BroadcastBytes arm, the loop over the nodes: one Deliver per node, in   *)
(* node order, at the current clock.                                       *)
RECURSIVE BroadcastTo(_, _)
BroadcastTo(s, n) ==
    IF n >= NumNodes \/ ~Live(s) THEN s
    ELSE LET env == [src |-> NODE_ID_MAX, dst |-> n, msg_id |-> s.id_gen.msg_id,
                     create_time |-> s.clock]
             s1 == [s EXCEPT !.id_gen.msg_id = @ + 1]
         IN BroadcastTo(schedule_at(s1, s.clock,
                                    [type |-> "Deliver", env |-> env, link_id |-> 0],
                                    EventDiscriminant_delivery(NODE_ID_MAX)),
                        n + 1)

(* BroadcastBytes arm *)
HandleBroadcastBytes(s, f) ==
    LET d == decode_hex(f.payload_hex) IN
    IF d.panic THEN Panic(s, "byte index is not a char boundary")
    ELSE IF d.ok
    THEN log_event(BroadcastTo(s, 0), "BROADCAST_BYTES_SUCCESS", d.bytes, None)
    ELSE log_event(s, "BROADCAST_BYTES_ERROR", <<>>, None)

(* Partition and HealPartition arms, with the record of the partitions in  *)
(* force: the sets, the clock and the next message id at dispatch.         *)
(* A Partition that also removes the queued deliveries crossing its sets. *)
HandlePartition_purge(s, f) ==
    [s EXCEPT !.links = set_partition(@, f.sets),
              !.queue = {e \in @ :
                            ~(/\ e.payload.type = "Deliver"
                              /\ FirstSet(f.sets, e.payload.env.src) # 0
                              /\ FirstSet(f.sets, e.payload.env.dst) # 0
                              /\ FirstSet(f.sets, e.payload.env.src)
                                     # FirstSet(f.sets, e.payload.env.dst))},
              !.h_parts = @ \cup {[sets |-> f.sets, time |-> s.clock,
                                   msg_mark |-> s.id_gen.msg_id]}]

HandlePartition(s, f) ==
    [s EXCEPT !.links = set_partition(@, f.sets),
              !.h_parts = @ \cup {[sets |-> f.sets, time |-> s.clock,
                                   msg_mark |-> s.id_gen.msg_id]}]

(* A StoreFault whose WriteError rate is also the torn write rate. *)
SetStoreRate_coupled(faults, kind, rate) ==
    IF kind = "FsyncFail" THEN [faults EXCEPT !.fsync_fail_rate = rate]
    ELSE IF kind = "FsyncDelay" THEN [faults EXCEPT !.fsync_delay_rate = rate]
    ELSE IF kind = "WriteError"
    THEN [faults EXCEPT !.write_error_rate = rate, !.torn_write_rate = rate]
    ELSE IF kind = "ReadError" THEN [faults EXCEPT !.read_error_rate = rate]
    ELSE IF kind = "TornWrite" THEN [faults EXCEPT !.torn_write_rate = rate]
    ELSE [faults EXCEPT !.stale_read_rate = rate]

(* handle_fault, StoreFault arm: the rate field of the kind *)
SetStoreRate(faults, kind, rate) ==
    IF kind = "FsyncFail" THEN [faults EXCEPT !.fsync_fail_rate = rate]
    ELSE IF kind = "FsyncDelay" THEN [faults EXCEPT !.fsync_delay_rate = rate]
    ELSE IF kind = "WriteError" THEN [faults EXCEPT !.write_error_rate = rate]
    ELSE IF kind = "ReadError" THEN [faults EXCEPT !.read_error_rate = rate]
    ELSE IF kind = "TornWrite" THEN [faults EXCEPT !.torn_write_rate = rate]
    ELSE [faults EXCEPT !.stale_read_rate = rate]

(* Simulation::handle_fault *)
handle_fault(s, id, f, ops1, ops2) ==
    IF f.type = "Crash" THEN HandleCrash(s, id, f, ops1)
    ELSE IF f.type = "Restart" THEN HandleRestart(s, id, f, ops1, ops2)
    ELSE IF f.type = "Partition" THEN HandlePartition(s, f)
    ELSE IF f.type = "HealPartition" THEN [s EXCEPT !.links = heal_partition(@), !.h_parts = {}]
    ELSE IF f.type = "StoreFault"
    THEN apply_fault([s EXCEPT !.nodes[f.node_id].store_faults =
                                   SetStoreRate(@, f.kind, f.rate)],
                     f.node_id, f, ops1, <<>>)
    ELSE IF f.type \in {"ClockSkew", "ByzantineFlip"}
    THEN apply_fault(s, f.node_id, f, ops1, <<>>)
    ELSE IF f.type = "LinkModelUpdate" THEN HandleLinkModelUpdate(s, f)
    ELSE IF f.type = "BroadcastBytes"
    THEN HandleBroadcastBytes(s, f)
    ELSE s

---------------------------------------------------------------------------
(* ftsim-engine::sim, the step *)

(* A dispatch whose UiSnapshotTick sends the snapshot and arms no next     *)
(* tick.                                                                   *)
Dispatch_one_shot(s, ev, ops1, ops2) ==
    LET p == ev.payload IN
    IF p.type = "Deliver"
    THEN handle_message(increment_metric(s, "messages_delivered"), p.env, ops1)
    ELSE IF p.type = "TimerFired"
    THEN handle_timer(increment_metric(s, "timers_fired"), p.node_id, p.timer_id, ops1)
    ELSE IF p.type = "Fault"
    THEN handle_fault(increment_metric(s, "faults_injected"), ev.id, p.fault, ops1, ops2)
    ELSE [s EXCEPT !.h_snapshots = @ + 1]

(* The dispatch of a popped event, after the clock has advanced. *)
Dispatch(s, ev, ops1, ops2) ==
    LET p == ev.payload IN
    IF p.type = "Deliver"
    THEN handle_message(increment_metric(s, "messages_delivered"), p.env, ops1)
    ELSE IF p.type = "TimerFired"
    THEN handle_timer(increment_metric(s, "timers_fired"), p.node_id, p.timer_id, ops1)
    ELSE IF p.type = "Fault"
    THEN handle_fault(increment_metric(s, "faults_injected"), ev.id, p.fault, ops1, ops2)
    ELSE schedule_after([s EXCEPT !.h_snapshots = @ + 1], SnapshotPeriodMs * NsPerMs,
                        [type |-> "UiSnapshotTick"], EventDiscriminant_ui)

(* A step that does not assert. *)
TimeAssertion_off(s, ev) == TRUE

(* The assertion of Simulation::step. *)
TimeAssertion(s, ev) == ev.time >= s.clock

(* Simulation::step on a non-empty queue. *)
step(s, ops1, ops2) ==
    LET ev == QueuePeek(s.queue)
        s1 == [s EXCEPT !.queue = @ \ {ev},
                        !.h_popped = Append(@, ev),
                        !.h_overtaken =
                            @ \/ (/\ ev.payload.type \in {"TimerFired", "Deliver"}
                                  /\ \E f \in s.queue : /\ f.payload.type = "Fault"
                                                        /\ f.time = ev.time)]
    IN IF ~TimeAssertion(s, ev) THEN Panic(s1, "Time went backwards!")
       ELSE Dispatch([s1 EXCEPT !.clock = ev.time], ev, ops1, ops2)

(* handle_control_message that applies a KillNode at once instead of       *)
(* queueing it                                                             *)
handle_control_message_now(s, msg) ==
    IF msg.type = "Pause" THEN [s EXCEPT !.state = "Paused"]
    ELSE IF msg.type = "Resume" THEN [s EXCEPT !.state = "Running"]
    ELSE IF msg.type = "Step" THEN [s EXCEPT !.state = "Stepping"]
    ELSE IF msg.type = "KillNode"
    THEN handle_fault(s, s.id_gen.event_id,
                      [type |-> "Crash", node_id |-> msg.node_id,
                       duration |-> MAX_SIM_TIME], <<>>, <<>>)
    ELSE IF msg.type = "RestartNode"
    THEN schedule_at(s, s.clock,
                     [type |-> "Fault", fault |-> FaultRestart(msg.node_id)],
                     EventDiscriminant_fault)
    ELSE IF msg.type = "InjectPartition"
    THEN schedule_at(s, s.clock,
                     [type |-> "Fault",
                      fault |-> [type |-> "Partition", sets |-> msg.sets]],
                     EventDiscriminant_fault)
    ELSE IF msg.type = "HealPartition"
    THEN schedule_at(s, s.clock,
                     [type |-> "Fault", fault |-> [type |-> "HealPartition"]],
                     EventDiscriminant_fault)
    ELSE s

(* Simulation::handle_control_message *)
handle_control_message(s, msg) ==
    IF msg.type = "Pause" THEN [s EXCEPT !.state = "Paused"]
    ELSE IF msg.type = "Resume" THEN [s EXCEPT !.state = "Running"]
    ELSE IF msg.type = "Step" THEN [s EXCEPT !.state = "Stepping"]
    ELSE IF msg.type = "KillNode"
    THEN schedule_at(s, s.clock,
                     [type |-> "Fault",
                      fault |-> [type |-> "Crash", node_id |-> msg.node_id,
                                 duration |-> MAX_SIM_TIME]],
                     EventDiscriminant_fault)
    ELSE IF msg.type = "RestartNode"
    THEN schedule_at(s, s.clock,
                     [type |-> "Fault", fault |-> FaultRestart(msg.node_id)],
                     EventDiscriminant_fault)
    ELSE IF msg.type = "InjectPartition"
    THEN schedule_at(s, s.clock,
                     [type |-> "Fault",
                      fault |-> [type |-> "Partition", sets |-> msg.sets]],
                     EventDiscriminant_fault)
    ELSE IF msg.type = "HealPartition"
    THEN schedule_at(s, s.clock,
                     [type |-> "Fault", fault |-> [type |-> "HealPartition"]],
                     EventDiscriminant_fault)
    ELSE s

(* Simulation::process_control_messages: every message received, in order. *)
RECURSIVE process_control_messages(_, _)
process_control_messages(s, msgs) ==
    IF msgs = <<>> THEN s
    ELSE process_control_messages(handle_control_message(s, Head(msgs)), Tail(msgs))

(* Simulation::init: every node's protocol init, in node order. *)
RECURSIVE InitFrom(_, _, _)
InitFrom(s, n, ops) ==
    IF n >= NumNodes THEN s
    ELSE InitFrom(Callback(s, n, ops[n]), n + 1, ops)

Simulation_init(s, ops) == InitFrom(s, 0, ops)

(* Simulation::new over the world of build_world. *)
Simulation_new(seed, overflow_checks) ==
    [clock |-> SIM_EPOCH,
     queue |-> {},
     nodes |-> [n \in Nodes |-> Node_new(n)],
     links |-> Net_from_topology(NumNodes),
     rng |-> [seed |-> seed, pos |-> 0],
     id_gen |-> [event_id |-> 0, msg_id |-> 0, timer_id |-> 0, insertion_seq |-> 0],
     metrics |-> [messages_sent |-> 0, messages_delivered |-> 0,
                  timers_fired |-> 0, faults_injected |-> 0],
     recorder |-> <<>>,
     state |-> "Running",
     overflow_checks |-> overflow_checks,
     panic |-> "none",
     over |-> FALSE,
     h_wall |-> 0,
     h_ticks |-> 0,
     h_snapshots |-> 0,
     h_popped |-> <<>>,
     h_on_message |-> 0,
     h_dropped |-> 0,
     h_overtaken |-> FALSE,
     h_on_timer |-> {},
     h_cancel_true |-> {},
     h_timer_after_cancel |-> FALSE,
     h_last_timer |-> [node |-> 0, timer_id |-> 0, up |-> FALSE,
                       live |-> FALSE, invoked |-> FALSE],
     h_open |-> {},
     h_pair |-> {},
     h_send_in_crash |-> FALSE,
     h_timer_in_crash |-> FALSE,
     h_parts |-> {},
     h_outcome |-> "none",
     h_sends |-> {},
     h_scenario |-> <<>>,
     h_last_call |-> <<>>,
     h_now |-> [node |-> 0, clock |-> 0, skew |-> 0, v |-> 0],
     h_ids |-> [kind \in {"event_id", "msg_id", "timer_id", "insertion_seq"} |-> <<>>],
     telemetry |-> [time |-> 0, event_id |-> 0, recent_events |-> <<>>],
     h_logged |-> <<>>]

---------------------------------------------------------------------------
(* The inputs of a run *)

SeqsUpTo(S, k) == UNION {[1 .. m -> S] : m \in 0 .. k}

(* What one protocol callback on node n may do. *)
ProtoOps(n) ==
    {[op |-> "send_raw", arg |-> d] : d \in Nodes \ {n}}
        \cup {[op |-> "set_timer", arg |-> a] : a \in {2}}
        \cup {[op |-> "cancel_timer", arg |-> k] : k \in 1 .. MaxOps}

Behaviours(n) == SeqsUpTo(ProtoOps(n), MaxOps)

(* The node a dispatched event's callbacks run on. *)
TargetOf(ev) ==
    IF ev.payload.type = "Deliver" THEN ev.payload.env.dst
    ELSE IF ev.payload.type = "TimerFired" THEN ev.payload.node_id
    ELSE IF ev.payload.type = "Fault" /\ "node_id" \in DOMAIN ev.payload.fault
    THEN ev.payload.fault.node_id
    ELSE 0

(* The callback sequences to choose from for the k-th callback of ev. *)
OpsFor(s, ev, k) ==
    (* How many protocol callbacks the dispatch of ev makes in state s. *)
    LET p == ev.payload
        CallbacksOf ==
            IF p.type = "Fault"
            THEN (IF p.fault.type = "Restart" THEN 2
                  ELSE IF p.fault.type \in {"Crash", "ClockSkew", "StoreFault",
                                            "ByzantineFlip"}
                  THEN 1
                  ELSE 0)
            ELSE IF p.type = "Deliver"
            THEN (IF s.nodes[p.env.dst].status = "Up" THEN 1 ELSE 0)
            ELSE IF p.type = "TimerFired"
            THEN (IF s.nodes[p.node_id].status = "Up"
                     /\ fire_timer(s.nodes[p.node_id].timers, p.timer_id).v
                  THEN 1 ELSE 0)
            ELSE 0
    IN
    IF CallbacksOf >= k /\ TargetOf(ev) \in Nodes
    THEN Behaviours(TargetOf(ev))
    ELSE {<<>>}

(* Scenario actions and directives. *)
ScenarioActions ==
    {[type |-> "Crash", node_id |-> 0, duration |-> 1],
     [type |-> "Crash", node_id |-> 0, duration |-> MAX_SIM_TIME - 1],
     [type |-> "Restart", node_id |-> 0],
     [type |-> "Restart", node_id |-> NumNodes],
     [type |-> "Partition", sets |-> <<{0}, Nodes \ {0}>>],
     [type |-> "HealPartition"]}

MaxDirectives == 1

Scenarios ==
    LET Directives ==
        {[kind |-> "At", time |-> 0, action |-> a] :
             a \in {x \in ScenarioActions : x.type \in {"Crash", "Restart", "Partition"}}}
            \cup {[kind |-> "At", time |-> 2, action |-> a] :
                      a \in {x \in ScenarioActions : x.type \in {"Crash", "HealPartition"}}}
            \cup {[kind |-> "After", offset |-> 2, action |-> a] :
                      a \in {x \in ScenarioActions : x.type = "Crash"}}
            \cup {[kind |-> "Every", period |-> 2, repeats |-> 2, action |-> a] :
                      a \in {x \in ScenarioActions : x.type = "HealPartition"}}
    IN SeqsUpTo(Directives, MaxDirectives)

(* ftsim-types::scenario, Scenario::validate *)
(* The checks of partition sets: none empty, no node twice, and fewer     *)
(* nodes in the sets than the world has.                                   *)
SetsValid(sets, num_nodes) ==
    /\ \A i \in 1 .. Len(sets) : sets[i] # {}
    /\ \A i, j \in 1 .. Len(sets) : i # j => sets[i] \cap sets[j] = {}
    /\ LET RECURSIVE Sum(_)
           Sum(i) == IF i > Len(sets) THEN 0 ELSE Cardinality(sets[i]) + Sum(i + 1)
       IN Sum(1) < num_nodes

Scenario_validate(scenario) ==
    \A i \in 1 .. Len(scenario) :
        LET a == scenario[i].action
        IN /\ "node_id" \in DOMAIN a => a.node_id < NumNodes
           /\ a.type = "Partition" => SetsValid(a.sets, NumNodes)

(* ftsim-engine::scenario *)
schedule(s, when, action) ==
    schedule_at(s, when, [type |-> "Fault", fault |-> action], EventDiscriminant_fault)

RECURSIVE ScheduleEvery(_, _, _, _)
ScheduleEvery(s, base, d, i) ==
    IF i >= d.repeats \/ ~Live(s) THEN s
    ELSE IF Overflows(base, i * d.period) /\ s.overflow_checks
    THEN Panic(s, "attempt to add with overflow")
    ELSE ScheduleEvery(schedule(s, WrappingAdd(base, i * d.period), d.action),
                       base, d, i + 1)

RECURSIVE load_and_schedule(_, _, _)
load_and_schedule(s, scenario, relative_time_base) ==
    IF scenario = <<>> \/ ~Live(s) THEN s
    ELSE LET d == Head(scenario) IN
         IF d.kind = "At"
         THEN load_and_schedule(schedule(s, d.time, d.action), Tail(scenario),
                                relative_time_base)
         ELSE IF d.kind = "After"
         THEN (IF Overflows(relative_time_base, d.offset) /\ s.overflow_checks
               THEN Panic(s, "attempt to add with overflow")
               ELSE load_and_schedule(
                        schedule(s, WrappingAdd(relative_time_base, d.offset), d.action),
                        Tail(scenario), WrappingAdd(relative_time_base, d.offset)))
         ELSE load_and_schedule(ScheduleEvery(s, relative_time_base, d, 0),
                                Tail(scenario), relative_time_base)

(* ftsim-cli run::exec from load_and_schedule to the choice of run loop. *)
Exec_load(s, scenario, tui) ==
    LET s1 == load_and_schedule(s, scenario, 0)
    IN IF tui THEN schedule_at(s1, 0, [type |-> "UiSnapshotTick"], EventDiscriminant_ui)
       ELSE s1

(* ftsim-tui App: the control messages its key handlers send. *)
TuiPartitionSets(num_nodes) ==
    LET mid == num_nodes \div 2
    IN <<0 .. (mid - 1), mid .. (num_nodes - 1)>>

ControlMsgs ==
    {[type |-> "Pause"], [type |-> "Resume"], [type |-> "Step"],
     [type |-> "KillNode", node_id |-> 0], [type |-> "RestartNode", node_id |-> 0],
     [type |-> "InjectPartition", sets |-> TuiPartitionSets(NumNodes)],
     [type |-> "HealPartition"]}

(* Where exec goes after a handler: a panic ends the process. *)
PcAfter(s, next) == IF s.panic # "none" THEN "panicked" ELSE next

---------------------------------------------------------------------------
(* The state machine *)

Init ==
    /\ \E seed \in 0 .. MaxSeed, oc \in BOOLEAN : sim = Simulation_new(seed, oc)
    /\ pc = "new"
    /\ control_rx = <<>>
    /\ ctl_sent = 0
    /\ stop_at = None
    /\ use_tui = FALSE
    /\ twin = Unused
    /\ net = Unused
    /\ store = Unused
    /\ app = Unused

(* The state exec is left in by a handler that led to r. *)
ExecDone(r, next) ==
    /\ ~r.over
    /\ sim' = r
    /\ pc' = PcAfter(r, next)

(* sim.init() *)
SimInit ==
    /\ pc = "new"
    /\ \E ops \in [Nodes -> UNION {Behaviours(n) : n \in Nodes}] :
          /\ \A n \in Nodes : ops[n] \in Behaviours(n)
          /\ ExecDone(Simulation_init(sim, ops), "init")
    /\ UNCHANGED <<control_rx, ctl_sent, stop_at, use_tui, twin, net, store, app>>

(* load_and_schedule, the first snapshot tick, and the choice of loop *)
LoadScenario ==
    /\ pc = "init"
    /\ \E scenario \in Scenarios, tui \in BOOLEAN, stop \in {None, Some(2)} :
          /\ Scenario_validate(scenario)
          /\ ExecDone(Exec_load(sim, scenario, tui), "run")
          /\ use_tui' = tui
          /\ stop_at' = stop
    /\ UNCHANGED <<control_rx, ctl_sent, twin, net, store, app>>

(* A key press in the TUI thread.  The partition key does nothing until    *)
(* the TUI holds a snapshot.                                               *)
TuiSend ==
    /\ pc = "run" /\ use_tui
    /\ ctl_sent < MaxCtl
    /\ \E msg \in ControlMsgs :
          /\ msg.type = "InjectPartition" => sim.h_snapshots > 0
          /\ control_rx' = Append(control_rx, msg)
    /\ ctl_sent' = ctl_sent + 1
    /\ UNCHANGED <<sim, pc, stop_at, use_tui, twin, net, store, app>>

(* The control messages received at the top of a loop iteration. *)
Polled == process_control_messages(sim, control_rx)

(* A stop check that also stops at an event of exactly the stop time. *)
StopReached_at(s, stop) ==
    stop.some /\ s.queue # {} /\ QueuePeek(s.queue).time >= stop.v

StopReached(s, stop) ==
    stop.some /\ s.queue # {} /\ QueuePeek(s.queue).time > stop.v

(* A loop iteration while Paused: sleep and poll again *)
RunPaused ==
    /\ pc = "run"
    /\ ~Polled.over
    /\ Polled.state = "Paused"
    /\ sim' = Polled
    /\ control_rx' = <<>>
    /\ UNCHANGED <<pc, ctl_sent, stop_at, use_tui, twin, net, store, app>>

(* run_until: the next event is past stop_at *)
RunStop ==
    /\ pc = "run"
    /\ ~Polled.over
    /\ Polled.state # "Paused"
    /\ StopReached(Polled, stop_at)
    /\ sim' = Polled
    /\ control_rx' = <<>>
    /\ pc' = "done"
    /\ UNCHANGED <<ctl_sent, stop_at, use_tui, twin, net, store, app>>

(* step() on an empty queue: None, Completed, the loop ends *)
RunCompleted ==
    /\ pc = "run"
    /\ ~Polled.over
    /\ Polled.state # "Paused"
    /\ Polled.queue = {}
    /\ sim' = [Polled EXCEPT !.state = "Completed"]
    /\ control_rx' = <<>>
    /\ pc' = "done"
    /\ UNCHANGED <<ctl_sent, stop_at, use_tui, twin, net, store, app>>

AfterStep(s) ==
    IF s.panic = "none" /\ s.state = "Stepping" THEN [s EXCEPT !.state = "Paused"] ELSE s

(* A loop iteration that steps: step() on a non-empty queue, then the      *)
(* Stepping check                                                          *)
RunStep ==
    /\ pc = "run"
    /\ ~Polled.over
    /\ Polled.state # "Paused"
    /\ ~StopReached(Polled, stop_at)
    /\ Polled.queue # {}
    /\ \E ops1 \in OpsFor(Polled, QueuePeek(Polled.queue), 1),
          ops2 \in OpsFor(Polled, QueuePeek(Polled.queue), 2) :
             \E r \in {step(Polled, ops1, ops2)} :
                 /\ ~r.over
                 /\ sim' = AfterStep(r)
                 /\ pc' = PcAfter(r, "run")
    /\ control_rx' = <<>>
    /\ UNCHANGED <<ctl_sent, stop_at, use_tui, twin, net, store, app>>

Next ==
    \/ SimInit
    \/ LoadScenario
    \/ TuiSend
    \/ RunPaused
    \/ RunStop
    \/ RunCompleted
    \/ RunStep

Spec == Init /\ [][Next]_vars

---------------------------------------------------------------------------
(* Two runs of the same seed, scenario and invocation, side by side.  The  *)
(* runs differ in what lies outside the seed and the scenario (h_wall, the *)
(* wall-clock instant and entropy of the process).  The protocol is a      *)
(* deterministic state machine: it makes the same calls in both runs as    *)
(* long as the runs have shown it the same history.                        *)

Agree(a, b) == [a EXCEPT !.h_wall = 0] = [b EXCEPT !.h_wall = 0]

AllInitOps == {ops \in [Nodes -> UNION {Behaviours(n) : n \in Nodes}] :
                  \A n \in Nodes : ops[n] \in Behaviours(n)}

(* A run of the pair: its simulation and where its exec is. *)
AsRun(s, next) == [sim |-> s, pc |-> PcAfter(s, next)]

(* One iteration of run / run_until with no control message pending. *)
Iterate(s, stop, ops1, ops2) ==
    IF StopReached(s, stop) THEN [sim |-> s, pc |-> "done"]
    ELSE IF s.queue = {} THEN [sim |-> [s EXCEPT !.state = "Completed"], pc |-> "done"]
    ELSE AsRun(AfterStep(step(s, ops1, ops2)), "run")

InitDet ==
    /\ \E seed \in 0 .. MaxSeed, oc \in BOOLEAN :
          /\ sim = Simulation_new(seed, oc)
          /\ twin = [sim |-> [Simulation_new(seed, oc) EXCEPT !.h_wall = 1],
                     pc |-> "new"]
    /\ pc = "new"
    /\ control_rx = <<>>
    /\ ctl_sent = 0
    /\ stop_at = None
    /\ use_tui = FALSE
    /\ net = Unused
    /\ store = Unused
    /\ app = Unused

(* The two runs, indexed: 1 is sim, 2 is twin.sim. *)
RunOf(i) == IF i = 1 THEN [sim |-> sim, pc |-> pc] ELSE twin

(* The state the two runs are left in by handlers that led to r[1], r[2]. *)
BothDone(r) ==
    /\ ~r[1].sim.over /\ ~r[2].sim.over
    /\ sim' = r[1].sim
    /\ pc' = r[1].pc
    /\ twin' = r[2]

DetSimInit ==
    /\ pc = "new" /\ twin.pc = "new"
    /\ \E ops \in AllInitOps :
          \E tops \in (IF Agree(sim, twin.sim) THEN {ops} ELSE AllInitOps) :
             BothDone([i \in {1, 2} |->
                          AsRun(Simulation_init(RunOf(i).sim, IF i = 1 THEN ops ELSE tops),
                                "init")])
    /\ UNCHANGED <<control_rx, ctl_sent, stop_at, use_tui, net, store, app>>

DetLoadScenario ==
    /\ pc = "init" /\ twin.pc = "init"
    /\ \E scenario \in Scenarios, tui \in BOOLEAN, stop \in {None, Some(2)} :
          /\ Scenario_validate(scenario)
          /\ BothDone([i \in {1, 2} |->
                          AsRun(Exec_load(RunOf(i).sim, scenario, tui), "run")])
          /\ use_tui' = tui
          /\ stop_at' = stop
    /\ UNCHANGED <<control_rx, ctl_sent, net, store, app>>

(* The callbacks open to the two runs in one iteration: the same in both   *)
(* while the runs agree.                                                   *)
OpsPairs(k) ==
    LET OpsIter(s) ==
            IF StopReached(s, stop_at) \/ s.queue = {} THEN {<<>>}
            ELSE OpsFor(s, QueuePeek(s.queue), k)
        o == [i \in {1, 2} |-> OpsIter(RunOf(i).sim)]
    IN IF Agree(sim, twin.sim) /\ pc = twin.pc
       THEN {<<x, x>> : x \in o[1]}
       ELSE o[1] \X o[2]

DetIterate ==
    /\ pc = "run" \/ twin.pc = "run"
    /\ \E o1 \in OpsPairs(1), o2 \in OpsPairs(2) :
          BothDone([i \in {1, 2} |->
                       IF RunOf(i).pc = "run"
                       THEN Iterate(RunOf(i).sim, stop_at, o1[i], o2[i])
                       ELSE RunOf(i)])
    /\ UNCHANGED <<control_rx, ctl_sent, stop_at, use_tui, net, store, app>>

SpecDet ==
    InitDet /\ [][DetSimInit \/ DetLoadScenario \/ DetIterate]_vars

---------------------------------------------------------------------------
(* A Net on its own, of NetNodes nodes in a full mesh: the partitions and  *)
(* heals that fault dispatch applies to it (handle_fault calls             *)
(* set_partition and heal_partition with the sets of the event).  The sets *)
(* are those a validated scenario can carry and the one the TUI sends.     *)
(* h_op is the last operation, h_before the links it was applied to,       *)
(* h_heals the number of heals in a row and h_first the links the first of *)
(* them was applied to.                                                    *)

NetNodes == 3
MaxLinkUpdates == 1

InitNet ==
    /\ net = [links |-> Net_from_topology(NetNodes),
              h_before |-> Net_from_topology(NetNodes),
              h_op |-> [type |-> "none"],
              h_heals |-> 0,
              h_first |-> Net_from_topology(NetNodes),
              h_updates |-> 0]
    /\ sim = Simulation_new(0, FALSE)
    /\ pc = "net"
    /\ control_rx = <<>>
    /\ ctl_sent = 0
    /\ stop_at = None
    /\ use_tui = FALSE
    /\ twin = Unused
    /\ store = Unused
    /\ app = Unused

(* handle_fault, Partition arm *)
NetPartition ==
    LET NetPartitionSets ==
        {sets \in SeqsUpTo(SUBSET (0 .. (NetNodes - 1)), NetNodes - 1) :
            SetsValid(sets, NetNodes)}
            \cup {TuiPartitionSets(NetNodes)}
    IN
    /\ pc = "net"
    /\ \E sets \in NetPartitionSets :
          net' = [links |-> set_partition(net.links, sets),
                  h_before |-> net.links,
                  h_op |-> [type |-> "Partition", sets |-> sets],
                  h_heals |-> 0,
                  h_first |-> net.h_first,
                  h_updates |-> net.h_updates]
    /\ UNCHANGED <<sim, pc, control_rx, ctl_sent, stop_at, use_tui, twin, store, app>>

(* handle_fault, HealPartition arm *)
NetHeal ==
    /\ pc = "net"
    /\ net' = [links |-> heal_partition(net.links),
               h_before |-> net.links,
               h_op |-> [type |-> "HealPartition"],
               h_heals |-> IF net.h_heals < 2 THEN net.h_heals + 1 ELSE 2,
               h_first |-> IF net.h_heals = 0 THEN net.links ELSE net.h_first,
               h_updates |-> net.h_updates]
    /\ UNCHANGED <<sim, pc, control_rx, ctl_sent, stop_at, use_tui, twin, store, app>>

(* handle_fault, LinkModelUpdate arm, for a link of the net and for an id   *)
(* that names none                                                         *)
NetLinkUpdate ==
    /\ pc = "net"
    /\ net.h_updates < MaxLinkUpdates
    /\ \E link_id \in {0, NetNodes, NetNodes * (NetNodes - 1)},
          change \in {"SetDelay", "SetDrop", "SetDuplicate", "SetCorrupt"} :
          net' = [HandleLinkModelUpdate(net, [type |-> "LinkModelUpdate",
                                              link_id |-> link_id, change |-> change,
                                              p |-> ProbOne,
                                              spec |-> [kind |-> "Const", lo |-> 1, hi |-> 1]])
                     EXCEPT !.h_before = net.links,
                            !.h_op = [type |-> "LinkModelUpdate"],
                            !.h_heals = 0,
                            !.h_updates = @ + 1]
    /\ UNCHANGED <<sim, pc, control_rx, ctl_sent, stop_at, use_tui, twin, store, app>>

(* handle_fault, Crash and Restart arms: Node::apply_fault on the node;    *)
(* neither arm refers to world.net                                         *)
NetCrashRestart ==
    /\ pc = "net"
    /\ sim' = apply_fault(sim, 0,
                          IF sim.nodes[0].status = "Up"
                          THEN [type |-> "Crash", node_id |-> 0, duration |-> 1]
                          ELSE FaultRestart(0),
                          <<>>, <<>>)
    /\ UNCHANGED <<net, pc, control_rx, ctl_sent, stop_at, use_tui, twin, store, app>>

SpecNet ==
    InitNet /\ [][NetPartition \/ NetHeal \/ NetLinkUpdate \/ NetCrashRestart]_vars

---------------------------------------------------------------------------
(* A run over a world whose link 0 -> 1 was given a fault model before the *)
(* world was handed to Simulation::new (World.net.links and the fields of  *)
(* LinkFaultModel are public): duplicate and drop probability 0 or 1, a    *)
(* constant or a uniform base delay.  The run has no scenario and no TUI.  *)

UniformBaseLo == 1
UniformBaseHi == 3
MtuBytes == 2

InitLink ==
    LET LinkModels ==
        {[LinkFaultModel_default EXCEPT !.duplicate = dup, !.drop = drop, !.base_delay = base] :
            dup \in {ProbZero, ProbOne}, drop \in {ProbZero, ProbOne},
            base \in {LinkFaultModel_default.base_delay,
                      [kind |-> "Uniform", lo |-> UniformBaseLo, hi |-> UniformBaseHi]}}
            \cup {[LinkFaultModel_default EXCEPT !.mtu_bytes = Some(MtuBytes)]}
    IN
    /\ \E seed \in 0 .. MaxSeed, oc \in BOOLEAN, model \in LinkModels :
          sim = [Simulation_new(seed, oc) EXCEPT !.links[0].faults = model]
    /\ pc = "new"
    /\ control_rx = <<>>
    /\ ctl_sent = 0
    /\ stop_at = None
    /\ use_tui = FALSE
    /\ twin = Unused
    /\ net = Unused
    /\ store = Unused
    /\ app = Unused

(* exec with a scenario that passed validate, headless, no stop time *)
LinkLoad ==
    (* The scenarios of these runs: none, or a LinkDrop on link 0 at time 0    *)
    (* with p = 0, 1 or 1 + 1/RngMod, as action_to_internal translates it.     *)
    LET LinkScenarios ==
        {<<>>}
            \cup {<<[kind |-> "At", time |-> 0,
                     action |-> [type |-> "LinkModelUpdate", link_id |-> 0,
                                 change |-> "SetDrop", p |-> p]]>> :
                      p \in {ProbZero, ProbOne, ProbOne + 1}}
    IN
    /\ pc = "init"
    /\ \E scenario \in LinkScenarios :
          /\ Scenario_validate(scenario)
          /\ ExecDone(Exec_load(sim, scenario, FALSE), "run")
    /\ UNCHANGED <<control_rx, ctl_sent, stop_at, use_tui, twin, net, store, app>>

SpecLink ==
    InitLink /\ [][SimInit \/ LinkLoad \/ RunStep \/ RunCompleted]_vars

---------------------------------------------------------------------------
(* One node's storage: the MemStore of the node (store/mem.rs) behind the  *)
(* EngineStoreWrapper that ctx.store() hands to the protocol (sim.rs), and *)
(* the node's StoreFaultModel, which StoreFault events set.  Each Node     *)
(* owns its store, so the calls of other nodes do not touch it.  The words *)
(* the wrapper draws come from the master generator at whatever position   *)
(* the rest of the run left it: any word.                                  *)

MaxLog == 2
MaxStoreFaults == 1
MaxCrashes == 1

Words == 0 .. (RngMod - 1)

(* MemStore::new: no key (the model has the one key "k"), an empty log *)
MemStore_new == [kv |-> [k \in {"k"} |-> [some |-> FALSE, v |-> ""]], log |-> <<>>]

(* An append that reports the length of the log after the push. *)
MemStore_append_log_after(m, rec) ==
    [m |-> [m EXCEPT !.log = Append(@, rec)], ok |-> TRUE, idx |-> Len(m.log) + 1]

(* MemStore::append_log: the index is the length before the push. *)
MemStore_append_log(m, rec) ==
    [m |-> [m EXCEPT !.log = Append(@, rec)], ok |-> TRUE, idx |-> Len(m.log)]

(* MemStore::read_log: self.log.get(idx).cloned() *)
MemStore_read_log(m, idx) ==
    IF idx < Len(m.log)
    THEN [ok |-> TRUE, some |-> TRUE, rec |-> m.log[idx + 1]]
    ELSE [ok |-> TRUE, some |-> FALSE, rec |-> ""]

MemStore_kv_put(m, k, v) == [m EXCEPT !.kv[k] = [some |-> TRUE, v |-> v]]

MemStore_kv_get(m, k) == m.kv[k]

(* gen_bool(p) on the drawn word; p = 1 needs no word. *)
WordBool(p, word) == IF p = ProbOne THEN TRUE ELSE word < p

(* How many words gen_bool(p) draws when it is called only for p > 0, as   *)
(* the wrapper does for append_log and read_log.                           *)
GuardedDraws(p) == IF p > ProbZero /\ p # ProbOne THEN 1 ELSE 0

(* An append whose torn write leaves the record in the log. *)
EngineStoreWrapper_append_log_torn(m, faults, rec, w1, w2) ==
    IF faults.write_error_rate > ProbZero /\ WordBool(faults.write_error_rate, w1)
    THEN [m |-> m, ok |-> FALSE, idx |-> 0,
          draws |-> GuardedDraws(faults.write_error_rate)]
    ELSE IF faults.torn_write_rate > ProbZero /\ WordBool(faults.torn_write_rate, w2)
    THEN [m |-> MemStore_append_log(m, rec).m, ok |-> FALSE, idx |-> 0,
          draws |-> GuardedDraws(faults.write_error_rate)
                        + GuardedDraws(faults.torn_write_rate)]
    ELSE MemStore_append_log(m, rec)
             @@ [draws |-> GuardedDraws(faults.write_error_rate)
                               + GuardedDraws(faults.torn_write_rate)]

(* EngineStoreWrapper::append_log; draws is the number of words drawn from *)
(* the master generator, each recorded at its site.                        *)
EngineStoreWrapper_append_log(m, faults, rec, w1, w2) ==
    IF faults.write_error_rate > ProbZero /\ WordBool(faults.write_error_rate, w1)
    THEN [m |-> m, ok |-> FALSE, idx |-> 0,
          draws |-> GuardedDraws(faults.write_error_rate)]
    ELSE IF faults.torn_write_rate > ProbZero /\ WordBool(faults.torn_write_rate, w2)
    THEN [m |-> m, ok |-> FALSE, idx |-> 0,
          draws |-> GuardedDraws(faults.write_error_rate)
                        + GuardedDraws(faults.torn_write_rate)]
    ELSE MemStore_append_log(m, rec)
             @@ [draws |-> GuardedDraws(faults.write_error_rate)
                               + GuardedDraws(faults.torn_write_rate)]

(* EngineStoreWrapper::read_log *)
EngineStoreWrapper_read_log(m, faults, idx, w1, w2) ==
    IF faults.read_error_rate > ProbZero /\ WordBool(faults.read_error_rate, w1)
    THEN [ok |-> FALSE, some |-> FALSE, rec |-> "",
          draws |-> GuardedDraws(faults.read_error_rate)]
    ELSE IF faults.stale_read_rate > ProbZero /\ WordBool(faults.stale_read_rate, w2)
    THEN [ok |-> TRUE, some |-> FALSE, rec |-> "",
          draws |-> GuardedDraws(faults.read_error_rate)
                        + GuardedDraws(faults.stale_read_rate)]
    ELSE MemStore_read_log(m, idx)
             @@ [draws |-> GuardedDraws(faults.read_error_rate)
                               + GuardedDraws(faults.stale_read_rate)]

(* EngineStoreWrapper::fsync: gen_bool(fsync_fail_rate) is called at every *)
(* rate, and draws a word unless the rate is 1.                            *)
EngineStoreWrapper_fsync(faults, w1) ==
    [ok |-> ~WordBool(faults.fsync_fail_rate, w1),
     draws |-> IF faults.fsync_fail_rate = ProbOne THEN 0 ELSE 1]

(* What the last call was, what it was given and what it returned. *)
LastCall(op, faults, idx, ok, ret_idx, some, rec, draws) ==
    [op |-> op, zero |-> \A f \in DOMAIN faults : faults[f] = ProbZero, idx |-> idx, ok |-> ok,
     ret_idx |-> ret_idx, some |-> some, rec |-> rec, draws |-> draws]

InitStore ==
    /\ store = [mem |-> MemStore_new,
                faults |-> StoreFaultModel_default,
                n_faults |-> 0,
                n_crashes |-> 0,
                h_crash_log |-> <<>>,
                h_appended |-> <<>>,
                h_last |-> LastCall("none", StoreFaultModel_default, 0, TRUE, 0, FALSE, "", 0)]
    /\ sim = Simulation_new(0, FALSE)
    /\ pc = "store"
    /\ control_rx = <<>>
    /\ ctl_sent = 0
    /\ stop_at = None
    /\ use_tui = FALSE
    /\ twin = Unused
    /\ net = Unused
    /\ app = Unused

(* ctx.store().append_log(rec) *)
StoreAppend ==
    /\ pc = "store"
    /\ Len(store.mem.log) < MaxLog
    /\ \E rec \in {"r1", "r2"} :
          \E r \in {EngineStoreWrapper_append_log(store.mem, store.faults, rec, w1, w2) :
                        w1 \in Words, w2 \in Words} :
              store' = [store EXCEPT
                  !.mem = r.m,
                  !.h_appended = IF r.ok THEN Append(@, [rec |-> rec, idx |-> r.idx])
                                 ELSE @,
                  !.h_last = LastCall("append_log", store.faults, 0, r.ok, r.idx,
                                      FALSE, rec, r.draws)]
    /\ UNCHANGED <<sim, pc, control_rx, ctl_sent, stop_at, use_tui, twin, net, app>>

(* ctx.store().read_log(idx) *)
StoreRead ==
    /\ pc = "store"
    /\ \E idx \in 0 .. MaxLog :
          \E r \in {EngineStoreWrapper_read_log(store.mem, store.faults, idx, w1, w2) :
                        w1 \in Words, w2 \in Words} :
              store' = [store EXCEPT
                  !.h_last = LastCall("read_log", store.faults, idx, r.ok, 0,
                                      r.some, r.rec, r.draws)]
    /\ UNCHANGED <<sim, pc, control_rx, ctl_sent, stop_at, use_tui, twin, net, app>>

(* ctx.store().kv_put(k, v): passed through to the MemStore *)
StoreKvPut ==
    /\ pc = "store"
    /\ \E k \in {"k"}, v \in {"v1", "v2"} :
          store' = [store EXCEPT
                       !.mem = MemStore_kv_put(@, k, v),
                       !.h_last = LastCall("kv_put", store.faults, 0, TRUE, 0, FALSE, "", 0)]
    /\ UNCHANGED <<sim, pc, control_rx, ctl_sent, stop_at, use_tui, twin, net, app>>

(* ctx.store().kv_get(k): passed through to the MemStore *)
StoreKvGet ==
    /\ pc = "store"
    /\ \E k \in {"k"} :
          store' = [store EXCEPT
                       !.h_last = LastCall("kv_get", store.faults, 0, TRUE, 0,
                                           MemStore_kv_get(store.mem, k).some,
                                           MemStore_kv_get(store.mem, k).v, 0)]
    /\ UNCHANGED <<sim, pc, control_rx, ctl_sent, stop_at, use_tui, twin, net, app>>

(* ctx.store().fsync() *)
StoreFsync ==
    /\ pc = "store"
    /\ \E r \in {EngineStoreWrapper_fsync(store.faults, w1) : w1 \in Words} :
          store' = [store EXCEPT
                       !.h_last = LastCall("fsync", store.faults, 0, r.ok, 0, FALSE, "",
                                           r.draws)]
    /\ UNCHANGED <<sim, pc, control_rx, ctl_sent, stop_at, use_tui, twin, net, app>>

(* a StoreFault event for the node is dispatched, of any kind, with rate   *)
(* 0, one half or 1                                                        *)
StoreFaultSet ==
    /\ pc = "store"
    /\ store.n_faults < MaxStoreFaults
    /\ \E kind \in {"WriteError", "TornWrite", "StaleRead", "ReadError",
                     "FsyncFail", "FsyncDelay"},
          rate \in {ProbZero, RngMod \div 2, ProbOne} :
          store' = [store EXCEPT
                       !.faults = SetStoreRate(@, kind, rate),
                       !.n_faults = @ + 1,
                       !.h_last = LastCall("StoreFault", store.faults, 0, TRUE, 0, FALSE, "", 0)]
    /\ UNCHANGED <<sim, pc, control_rx, ctl_sent, stop_at, use_tui, twin, net, app>>

(* a Crash of the node that wipes its store *)
StoreCrash_wiping ==
    /\ pc = "store"
    /\ sim.nodes[0].status = "Up"
    /\ store.n_crashes < MaxCrashes
    /\ sim' = apply_fault(sim, 0, [type |-> "Crash", node_id |-> 0, duration |-> 1],
                          <<>>, <<>>)
    /\ store' = [store EXCEPT
                    !.mem = MemStore_new,
                    !.n_crashes = @ + 1,
                    !.h_crash_log = store.mem.log,
                    !.h_last = LastCall("Crash", store.faults, 0, TRUE, 0, FALSE, "", 0)]
    /\ UNCHANGED <<pc, control_rx, ctl_sent, stop_at, use_tui, twin, net, app>>

(* a Crash of the node is dispatched: Node::apply_fault, which does not    *)
(* refer to the node's store; h_crash_log is the log at the crash          *)
StoreCrash ==
    /\ pc = "store"
    /\ sim.nodes[0].status = "Up"
    /\ store.n_crashes < MaxCrashes
    /\ sim' = apply_fault(sim, 0, [type |-> "Crash", node_id |-> 0, duration |-> 1],
                          <<>>, <<>>)
    /\ store' = [store EXCEPT
                    !.n_crashes = @ + 1,
                    !.h_crash_log = store.mem.log,
                    !.h_last = LastCall("Crash", store.faults, 0, TRUE, 0, FALSE, "", 0)]
    /\ UNCHANGED <<pc, control_rx, ctl_sent, stop_at, use_tui, twin, net, app>>

(* the Restart of the crashed node is dispatched *)
StoreRestart ==
    /\ pc = "store"
    /\ sim.nodes[0].status = "Down"
    /\ sim' = apply_fault(sim, 0, FaultRestart(0), <<>>, <<>>)
    /\ store' = [store EXCEPT
                    !.h_last = LastCall("Restart", store.faults, 0, TRUE, 0, FALSE, "", 0)]
    /\ UNCHANGED <<pc, control_rx, ctl_sent, stop_at, use_tui, twin, net, app>>

SpecStore ==
    InitStore /\ [][StoreAppend \/ StoreRead \/ StoreKvPut \/ StoreKvGet \/ StoreFsync
                     \/ StoreFaultSet \/ StoreCrash \/ StoreRestart]_vars

---------------------------------------------------------------------------
(* load_and_schedule on its own: a scenario of up to MaxSchedDirectives    *)
(* directives is scheduled into a simulation that has no events yet.       *)

MaxSchedDirectives == 3
SchedAt == 3
SchedOffset == 1
SchedPeriod == 2
SchedRepeats == 2

(* A simulation as constructed, whose parts are then exercised on their    *)
(* own, in a build with or without overflow checks.                        *)
InitUnit ==
    /\ \E oc \in BOOLEAN : sim = Simulation_new(0, oc)
    /\ pc = "unit"
    /\ control_rx = <<>>
    /\ ctl_sent = 0
    /\ stop_at = None
    /\ use_tui = FALSE
    /\ twin = Unused
    /\ net = Unused
    /\ store = Unused
    /\ app = Unused

(* load_and_schedule(&mut sim, &scenario) for a scenario that validates *)
SchedLoad ==
    LET SchedDirectives ==
        {[kind |-> "At", time |-> tm, action |-> [type |-> "HealPartition"]] :
             tm \in {0, SchedAt}}
            \cup {[kind |-> "After", offset |-> o, action |-> [type |-> "Restart", node_id |-> 0]] :
                      o \in {SchedOffset, MAX_SIM_TIME}}
            \cup {[kind |-> "Every", period |-> SchedPeriod, repeats |-> r,
                   action |-> [type |-> "HealPartition"]] : r \in {0, SchedRepeats}}
    IN
    /\ pc = "unit"
    /\ \E scenario \in SeqsUpTo(SchedDirectives, MaxSchedDirectives) :
          /\ Scenario_validate(scenario)
          /\ ~load_and_schedule(sim, scenario, 0).over
          /\ sim' = [load_and_schedule(sim, scenario, 0) EXCEPT !.h_scenario = scenario]
    /\ pc' = IF sim'.panic # "none" THEN "panicked" ELSE "loaded"
    /\ UNCHANGED <<control_rx, ctl_sent, stop_at, use_tui, twin, net, store, app>>

SpecSched == InitUnit /\ [][SchedLoad]_vars

---------------------------------------------------------------------------
(* The protocol's view of time on its own: events are popped at times not  *)
(* before the clock, and the callback each leads to reads ctx.now().       *)

(* An event for node n is popped at time tm and its callback reads now(). *)
ClockDeliver ==
    /\ pc = "unit"
    /\ \E tm \in {0, 1, 2 ^ (TimeBits - 1), MAX_SIM_TIME}, n \in Nodes :
          /\ tm >= sim.clock
          /\ sim' = Callback([sim EXCEPT !.clock = tm], n, <<[op |-> "now"]>>)
    /\ pc' = PcAfter(sim', "unit")
    /\ UNCHANGED <<control_rx, ctl_sent, stop_at, use_tui, twin, net, store, app>>

(* A ClockSkew fault for node n is popped at time tm; the protocol's       *)
(* on_fault(ClockSkewed) reads now().                                      *)
ClockSkewFault ==
    /\ pc = "unit"
    /\ \E tm \in {0, 1, 2 ^ (TimeBits - 1), MAX_SIM_TIME}, n \in Nodes,
          skew \in {-(2 ^ (TimeBits - 1)), 1 - 2 ^ (TimeBits - 1), -2, 0, 1,
                    2 ^ (TimeBits - 1) - 1} :
          /\ tm >= sim.clock
          /\ sim' = handle_fault([sim EXCEPT !.clock = tm], 0,
                                 [type |-> "ClockSkew", node_id |-> n, skew_ns |-> skew],
                                 <<[op |-> "now"]>>, <<>>)
    /\ pc' = PcAfter(sim', "unit")
    /\ UNCHANGED <<control_rx, ctl_sent, stop_at, use_tui, twin, net, store, app>>

SpecClock ==
    InitUnit /\ [][ClockDeliver \/ ClockSkewFault]_vars

---------------------------------------------------------------------------
(* IdGen on its own, with counters of IdBits bits so that the end of the   *)
(* range is within reach: schedule_at calls next_event_id and              *)
(* next_insertion_seq, send_raw next_msg_id, set_timer next_timer_id.      *)

IdBits == 3

(* A generator that wraps around at the end of the range. *)
IdGen_next_wrapping(s, kind) ==
    [s EXCEPT !.id_gen[kind] = (@ + 1) % (2 ^ IdBits),
              !.h_ids[kind] = Append(@, s.id_gen[kind])]

(* IdGen::next_event_id, next_msg_id, next_timer_id, next_insertion_seq:   *)
(* the id is the counter, and the counter is checked_add(1).expect(..).    *)
IdGen_next(s, kind) ==
    IF s.id_gen[kind] + 1 > 2 ^ IdBits - 1
    THEN Panic(s, "id overflow")
    ELSE [s EXCEPT !.id_gen[kind] = @ + 1,
                   !.h_ids[kind] = Append(@, s.id_gen[kind])]

(* one allocation, by whichever call of the engine makes it *)
IdsAllocate ==
    /\ pc = "unit"
    /\ \E kind \in {"event_id", "msg_id", "timer_id", "insertion_seq"} :
          sim' = IdGen_next(sim, kind)
    /\ pc' = PcAfter(sim', "unit")
    /\ UNCHANGED <<control_rx, ctl_sent, stop_at, use_tui, twin, net, store, app>>

SpecIds == InitUnit /\ [][IdsAllocate]_vars

---------------------------------------------------------------------------
(* The telemetry ring of recent events, on its own: the context is set as  *)
(* step() sets it for each popped event, and summaries are logged.         *)

MaxLogged == 103
MaxContext == 1

(* step() moves the context on to the next popped event *)
RingSetContext ==
    /\ pc = "unit"
    /\ sim.telemetry.event_id < MaxContext
    /\ sim' = set_current_time(sim, sim.telemetry.time + 1, sim.telemetry.event_id + 1)
    /\ UNCHANGED <<pc, control_rx, ctl_sent, stop_at, use_tui, twin, net, store, app>>

(* one summary is logged; its text is the ordinal of the call *)
RingLog ==
    /\ pc = "unit"
    /\ Len(sim.h_logged) < MaxLogged
    /\ sim' = log_event(sim, "Deliver", Len(sim.h_logged) + 1, None)
    /\ UNCHANGED <<pc, control_rx, ctl_sent, stop_at, use_tui, twin, net, store, app>>

SpecRing ==
    InitUnit /\ [][RingSetContext \/ RingLog]_vars

---------------------------------------------------------------------------
(* The run loop under the TUI's control messages, from the state exec      *)
(* enters run() in: a world initialised by its protocols, each of which    *)
(* sends one message or sets one timer, an empty scenario loaded, the      *)
(* first snapshot tick queued.                                             *)

MaxPauseCtl == 3

InitPause ==
    /\ \E oc \in BOOLEAN, ops \in [Nodes -> UNION {Behaviours(n) : n \in Nodes}] :
          /\ \A n \in Nodes : Len(ops[n]) = 1 /\ ops[n] \in Behaviours(n)
                                /\ ops[n][1].op # "cancel_timer"
          /\ sim = Exec_load(Simulation_init(Simulation_new(0, oc), ops), <<>>, TRUE)
    /\ Live(sim)
    /\ pc = "run"
    /\ control_rx = <<>>
    /\ ctl_sent = 0
    /\ stop_at = None
    /\ use_tui = TRUE
    /\ twin = Unused
    /\ net = Unused
    /\ store = Unused
    /\ app = Unused

(* A key press in the TUI thread, as TuiSend *)
PauseSend ==
    /\ pc = "run" /\ use_tui
    /\ ctl_sent < MaxPauseCtl
    /\ \E msg \in ControlMsgs :
          /\ msg.type = "InjectPartition" => sim.h_snapshots > 0
          /\ control_rx' = Append(control_rx, msg)
    /\ ctl_sent' = ctl_sent + 1
    /\ UNCHANGED <<sim, pc, stop_at, use_tui, twin, net, store, app>>

(* with the TUI on every snapshot tick queues the next, so the queue is    *)
(* never found empty                                                       *)
SpecPause ==
    InitPause /\ [][PauseSend \/ RunPaused \/ RunStep]_vars

---------------------------------------------------------------------------
(* ftsim-tui: the App under key presses.  control_rx is the channel its    *)
(* control_tx sends on; the engine holds the receiving end.                *)

MaxKeys == 6

(* an App::toggle_pause that picks the message before it flips the flag *)
toggle_pause_stale(a) ==
    [app |-> [a EXCEPT !.is_paused = ~a.is_paused],
     sent |-> <<[type |-> IF a.is_paused THEN "Pause" ELSE "Resume"]>>]

(* App::toggle_pause: the App it leaves and what it sent *)
toggle_pause(a) ==
    [app |-> [a EXCEPT !.is_paused = ~a.is_paused],
     sent |-> <<[type |-> IF ~a.is_paused THEN "Pause" ELSE "Resume"]>>]

(* input::handle_key_press, for the keys " ", "?", "." and "/" and any     *)
(* key without a binding ("x")                                             *)
handle_key_press(key, a) ==
    IF key = "?" THEN [app |-> [a EXCEPT !.show_help = ~a.show_help], sent |-> <<>>]
    ELSE IF key = " " THEN toggle_pause(a)
    ELSE IF key = "." THEN [app |-> a, sent |-> <<[type |-> "Step"]>>]
    ELSE IF key = "/" THEN [app |-> [a EXCEPT !.filter_logs = ~a.filter_logs], sent |-> <<>>]
    ELSE [app |-> a, sent |-> <<>>]

(* App::new(control_tx); h_keys is the keys pressed so far *)
InitTui ==
    /\ app = [show_help |-> FALSE, is_paused |-> FALSE, filter_logs |-> FALSE,
              h_keys |-> <<>>]
    /\ sim = Simulation_new(0, FALSE)
    /\ pc = "tui"
    /\ control_rx = <<>>
    /\ ctl_sent = 0
    /\ stop_at = None
    /\ use_tui = TRUE
    /\ twin = Unused
    /\ net = Unused
    /\ store = Unused

(* one key event read by the TUI's loop *)
TuiKeyPress ==
    /\ pc = "tui"
    /\ Len(app.h_keys) < MaxKeys
    /\ \E key \in {" ", "?", ".", "/", "x"} :
          LET r == handle_key_press(key, app)
          IN /\ app' = [r.app EXCEPT !.h_keys = Append(@, key)]
             /\ control_rx' = control_rx \o r.sent
             /\ ctl_sent' = ctl_sent + Len(r.sent)
    /\ UNCHANGED <<sim, pc, stop_at, use_tui, twin, net, store>>

SpecTui == InitTui /\ [][TuiKeyPress]_vars

---------------------------------------------------------------------------
(* send_raw on its own: a callback on node src sends to a node of the      *)
(* world, to itself, or to the source id of an engine-injected message.    *)

MaxSends == 4

SendAnywhere ==
    /\ pc = "unit"
    /\ sim.metrics.messages_sent < MaxSends
    /\ \E src \in Nodes, dst \in Nodes \cup {NODE_ID_MAX} :
          \E r \in {send_raw(sim, src, dst)} : ~r.over /\ sim' = r
    /\ pc' = PcAfter(sim', "unit")
    /\ UNCHANGED <<control_rx, ctl_sent, stop_at, use_tui, twin, net, store, app>>

SpecSend == InitUnit /\ [][SendAnywhere]_vars

---------------------------------------------------------------------------
(* BroadcastBytes on its own: a scenario with one BroadcastBytes directive  *)
(* is loaded into a world whose node 0 may be down and whose links may be  *)
(* partitioned, and the run loop pops the queue until it is empty.         *)

MaxHexLen == 3
BcastAt == 4

(* A Crash of node 0 or a Partition, applied before the broadcast is loaded *)
BcastContext ==
    /\ pc = "unit"
    /\ \/ /\ sim.nodes[0].status = "Up"
          /\ sim' = apply_fault(sim, 0, [type |-> "Crash", node_id |-> 0, duration |-> 1],
                                <<>>, <<>>)
       \/ /\ sim.h_parts = {}
          /\ sim' = HandlePartition(sim, [type |-> "Partition",
                                          sets |-> TuiPartitionSets(NumNodes)])
    /\ UNCHANGED <<pc, control_rx, ctl_sent, stop_at, use_tui, twin, net, store, app>>

(* load_and_schedule for a scenario of one `At` directive with the action  *)
(* BroadcastBytes                                                          *)
BcastLoad ==
    /\ pc = "unit"
    /\ \E payload_hex \in SeqsUpTo(HexDigits \cup {"g", "+", " ", "e'"}, MaxHexLen),
          tm \in {0, BcastAt} :
          sim' = load_and_schedule(
                     sim,
                     <<[kind |-> "At", time |-> tm,
                        action |-> [type |-> "BroadcastBytes",
                                    payload_hex |-> payload_hex]]>>,
                     0)
    /\ pc' = "bcast_run"
    /\ UNCHANGED <<control_rx, ctl_sent, stop_at, use_tui, twin, net, store, app>>

(* Simulation::run, one iteration on a non-empty queue *)
BcastStep ==
    /\ pc = "bcast_run"
    /\ sim.queue # {}
    /\ \E r \in {step(sim, <<>>, <<>>)} : ~r.over /\ sim' = r
    /\ pc' = PcAfter(sim', "bcast_run")
    /\ UNCHANGED <<control_rx, ctl_sent, stop_at, use_tui, twin, net, store, app>>

SpecBroadcast == InitUnit /\ [][BcastContext \/ BcastLoad \/ BcastStep]_vars

---------------------------------------------------------------------------
(* The faults that update a link's model or a node's store fault model, on *)
(* their own, dispatched as step() dispatches them among Crashes, which    *)
(* queue their Restart, and Partitions.  h_last_call is the fault          *)
(* dispatched last.                                                        *)

MaxFrameFaults == 4

(* step(), Event::Fault arm, for a LinkModelUpdate (of a link of the       *)
(* world or of an id that names none), a StoreFault, a Crash or a          *)
(* Partition                                                               *)
FrameFault ==
    /\ pc = "unit"
    /\ sim.metrics.faults_injected < MaxFrameFaults
    /\ \E f \in {[type |-> "LinkModelUpdate", link_id |-> l, change |-> c, p |-> ProbOne,
                  spec |-> [kind |-> "Const", lo |-> 1, hi |-> 1]] :
                     l \in {0, 1, NumNodes * (NumNodes - 1)},
                     c \in {"SetDelay", "SetDrop", "SetDuplicate", "SetCorrupt"}}
                \cup {[type |-> "StoreFault", node_id |-> n, kind |-> k, rate |-> ProbOne] :
                         n \in Nodes,
                         k \in {"WriteError", "TornWrite", "StaleRead", "ReadError",
                                "FsyncFail", "FsyncDelay"}}
                \cup {[type |-> "Partition", sets |-> TuiPartitionSets(NumNodes)],
                      [type |-> "Crash", node_id |-> 0, duration |-> 1]} :
          \E r \in {handle_fault(increment_metric(sim, "faults_injected"), 0, f,
                                  <<>>, <<>>)} :
              ~r.over /\ sim' = [r EXCEPT !.h_last_call = <<f>>]
    /\ pc' = PcAfter(sim', "unit")
    /\ UNCHANGED <<control_rx, ctl_sent, stop_at, use_tui, twin, net, store, app>>

SpecFrame == InitUnit /\ [][FrameFault]_vars

---------------------------------------------------------------------------
(* The timer book of one node on its own, under any sequence of its        *)
(* operations on any ids.  h_last_call is the call made last and what it   *)
(* returned.                                                               *)

MaxTimerId == 3

TimerOp ==
    /\ pc = "unit"
    /\ \E op \in {"add_timer", "cancel_timer", "fire_timer", "clear"},
          timer_id \in 0 .. MaxTimerId :
          LET tw == sim.nodes[0].timers
              r == IF op = "add_timer" THEN [tw |-> add_timer(tw, timer_id), v |-> TRUE]
                   ELSE IF op = "cancel_timer" THEN TimerWheel_cancel_timer(tw, timer_id)
                   ELSE IF op = "fire_timer" THEN fire_timer(tw, timer_id)
                   ELSE [tw |-> TimerWheel_clear(tw), v |-> TRUE]
          IN sim' = [sim EXCEPT !.nodes[0].timers = r.tw,
                                !.h_last_call = <<[type |-> op, timer_id |-> timer_id,
                                               v |-> r.v]>>]
    /\ UNCHANGED <<pc, control_rx, ctl_sent, stop_at, use_tui, twin, net, store, app>>

SpecTimers == InitUnit /\ [][TimerOp]_vars

---------------------------------------------------------------------------
(* Properties *)

(* C1: across steps the clock never decreases, whatever the interleaving   *)
(* of timers, deliveries, faults, snapshot ticks and control-originated    *)
(* faults, and a step() on an empty queue leaves the clock unchanged.      *)
ClockNeverDecreases ==
    [][/\ sim'.clock >= sim.clock
       /\ RunCompleted => sim'.clock = sim.clock]_vars

(* A run that stepped, advanced the clock, and then stepped on an empty    *)
(* queue.                                                                  *)
ClockAdvancedThenCompleted ==
    /\ pc = "done" /\ sim.state = "Completed"
    /\ sim.h_popped # <<>> /\ sim.clock > SIM_EPOCH

(* The queue key of an event, and its lexicographic order. *)
KeyLess(a, b) ==
    \/ a.time < b.time
    \/ a.time = b.time /\ a.insert_seq < b.insert_seq
    \/ a.time = b.time /\ a.insert_seq = b.insert_seq
         /\ DiscLess(a.discriminant, b.discriminant)

(* C2: A is processed before B iff A's (fire_time, insertion_seq,          *)
(* discriminant) is lexicographically less than B's: the events processed  *)
(* so far were processed in increasing key order, and each has a smaller   *)
(* key than every event still queued, also one enqueued after it was       *)
(* processed.                                                              *)
ProcessedInKeyOrder ==
    /\ \A i, j \in 1 .. Len(sim.h_popped) :
           i < j => KeyLess(sim.h_popped[i], sim.h_popped[j])
    /\ \A i \in 1 .. Len(sim.h_popped) :
           \A e \in sim.queue : KeyLess(sim.h_popped[i], e)

PoppedTuples(s) == [i \in 1 .. Len(s.h_popped) |->
                       <<s.h_popped[i].time, s.h_popped[i].id, s.h_popped[i].discriminant>>]

CrashSilence == ~sim.h_send_in_crash /\ ~sim.h_timer_in_crash

(* C5: once cancel_timer(id) has returned true on a node, the protocol on  *)
(* that node never receives on_timer(id).                                  *)
CancelledNeverFires == ~sim.h_timer_after_cancel

(* C6: at the dispatch of TimerFired{node, id}, on_timer(id) is invoked    *)
(* iff the node is Up and id is live in the node's timer book.             *)
OnTimerIffLive ==
    sim.h_last_timer.invoked <=> (sim.h_last_timer.up /\ sim.h_last_timer.live)

(* src and dst of env lie in different sets of a partition. *)
Crosses(sets, env) ==
    \E i, j \in 1 .. Len(sets) : i # j /\ env.src \in sets[i] /\ env.dst \in sets[j]

(* C7 as stated: while the flags of a dispatched Partition are in force,   *)
(* the queue holds no Deliver crossing its sets whose create_time is at or *)
(* after the time of the Partition event.                                  *)
NoCrossingDeliverFromPartitionTime ==
    \A p \in sim.h_parts : \A e \in sim.queue :
        (e.payload.type = "Deliver" /\ Crosses(p.sets, e.payload.env))
            => e.payload.env.create_time < p.time

(* C7, amended: while the flags of a dispatched Partition are in force,    *)
(* the queue holds no Deliver crossing its sets whose envelope was sent    *)
(* after the Partition event was dispatched.                               *)
NoCrossingDeliverSentAfterPartition ==
    \A p \in sim.h_parts : \A e \in sim.queue :
        (e.payload.type = "Deliver" /\ Crosses(p.sets, e.payload.env))
            => e.payload.env.msg_id < p.msg_mark

(* A partition is in force and a node has called send_raw since. *)
SentUnderPartition ==
    \E p \in sim.h_parts :
        /\ sim.id_gen.msg_id > p.msg_mark
        /\ \E i, j \in 1 .. Len(p.sets) : i # j

(* C8: a Fault with fire time T is dispatched before every timer and       *)
(* delivery queued with the same fire time: no timer or delivery is popped *)
(* while a Fault of its fire time is queued.                               *)
FaultFirstAtEqualTime == ~sim.h_overtaken

(* C9: a Deliver whose destination is not Up at dispatch invokes no        *)
(* on_message; the event is consumed and the nodes (status, timers) are    *)
(* unchanged, and nothing is put back in the queue.                        *)
DeliverToDownDropped ==
    [][(/\ Len(sim'.h_popped) = Len(sim.h_popped) + 1
        /\ sim'.h_popped[Len(sim'.h_popped)].payload.type = "Deliver"
        /\ sim.nodes[sim'.h_popped[Len(sim'.h_popped)].payload.env.dst].status # "Up")
       => (/\ sim'.h_on_message = sim.h_on_message
           /\ sim'.nodes = sim.nodes
           /\ sim'.queue = Polled.queue \ {sim'.h_popped[Len(sim'.h_popped)]})]_vars

(* A delivery was dropped on entry at a node that was not Up. *)
DeliveryDroppedAtDownNode == sim.h_dropped > 0

(* C10: every queued event has fire_time >= clock, and the assertion of    *)
(* step() never fails.                                                     *)
QueueNotBeforeClock ==
    /\ \A e \in sim.queue : e.time >= sim.clock
    /\ sim.panic # "Time went backwards!"

(* C11: run_until(T), Running and with no control message, halts iff the  *)
(* queue is empty or its head's fire time is > T; when it returns, no      *)
(* queued event has fire time <= T, the clock is <= T, and every event     *)
(* enqueued so far has been processed or is still queued.                  *)
RunUntilHaltsIffPastStop ==
    [][(/\ pc = "run" /\ stop_at.some
        /\ sim.state = "Running" /\ control_rx = <<>> /\ control_rx' = <<>>)
       => (/\ (pc' = "done") <=>
                  (sim.queue = {} \/ QueuePeek(sim.queue).time > stop_at.v)
           /\ (pc' = "done") =>
                  (/\ \A e \in sim'.queue : e.time > stop_at.v
                   /\ sim'.clock <= stop_at.v
                   /\ Cardinality(sim'.queue) + Len(sim'.h_popped)
                          = sim'.id_gen.event_id))]_vars

(* run_until(T) returned after processing an event of fire time exactly T, *)
(* with a later event left in the queue.                                   *)
StoppedAfterEventAtStopTime ==
    /\ pc = "done" /\ stop_at.some /\ sim.state = "Running"
    /\ \E i \in 1 .. Len(sim.h_popped) : sim.h_popped[i].time = stop_at.v
    /\ sim.queue # {}

(* Whether the link l has its src and dst in different sets. *)
LinkCrosses(sets, l) ==
    \E i, j \in 1 .. Len(sets) : i # j /\ l.src \in sets[i] /\ l.dst \in sets[j]

(* C12: a Partition{sets} sets partitioned on every link whose src and dst *)
(* lie in different sets and leaves every other link as it was: a link     *)
(* inside one set, or with an endpoint in no set, keeps its flag.          *)
PartitionMarksCrossingLinksOnly ==
    net.h_op.type = "Partition" =>
        \A id \in DOMAIN net.links :
            net.links[id] =
                IF LinkCrosses(net.h_op.sets, net.h_before[id])
                THEN [net.h_before[id] EXCEPT !.faults.partitioned = TRUE]
                ELSE net.h_before[id]

(* A Partition set the flag of a crossing link while a link with an        *)
(* endpoint in no set kept the flag an earlier Partition had set.          *)
PartitionKeptUncoveredFlag ==
    /\ net.h_op.type = "Partition"
    /\ \E id \in DOMAIN net.links :
          /\ LinkCrosses(net.h_op.sets, net.links[id])
          /\ ~net.h_before[id].faults.partitioned
          /\ net.links[id].faults.partitioned
    /\ \E id \in DOMAIN net.links :
          /\ \A i \in 1 .. Len(net.h_op.sets) : net.links[id].dst \notin net.h_op.sets[i]
          /\ net.h_before[id].faults.partitioned
          /\ net.links[id].faults.partitioned

(* C13: HealPartition clears the partitioned flag of every link and        *)
(* changes nothing else, and a second HealPartition leaves the links as    *)
(* the first one left them.                                                *)
HealClearsAllAndIsIdempotent ==
    net.h_op.type = "HealPartition" =>
        /\ \A id \in DOMAIN net.links :
               net.links[id] = [net.h_before[id] EXCEPT !.faults.partitioned = FALSE]
        /\ net.h_heals >= 2 =>
               /\ net.links = net.h_before
               /\ \A id \in DOMAIN net.links :
                      net.links[id] = [net.h_first[id] EXCEPT !.faults.partitioned = FALSE]

(* Two heals in a row, the first applied to links with a flag set. *)
HealedTwice ==
    /\ net.h_op.type = "HealPartition" /\ net.h_heals = 2
    /\ \E id \in DOMAIN net.links : net.h_first[id].faults.partitioned

(* The event popped by the step that led to s, and whether this step of   *)
(* the run popped one.                                                     *)
LastPopped(s) == s.h_popped[Len(s.h_popped)]

Stepped == Len(sim'.h_popped) = Len(sim.h_popped) + 1

(* C14: a Partition event removes no queued event; a queued Deliver is     *)
(* dispatched at its own fire time and reaches on_message of an Up         *)
(* destination whatever the partitioned flags are; and a send is dropped   *)
(* with reason partition exactly when its link is partitioned at the send. *)
InFlightSurvivesPartition ==
    [][/\ (/\ Stepped
           /\ LastPopped(sim').payload.type = "Fault"
           /\ LastPopped(sim').payload.fault.type = "Partition")
          => sim'.queue = Polled.queue \ {LastPopped(sim')}
       /\ (/\ Stepped
           /\ LastPopped(sim').payload.type = "Deliver"
           /\ LastPopped(sim').time >= Polled.clock
           /\ sim.nodes[LastPopped(sim').payload.env.dst].status = "Up")
          => (/\ LastPopped(sim') \in Polled.queue
              /\ sim'.clock = LastPopped(sim').time
              /\ sim'.h_on_message = sim.h_on_message + 1)
       /\ \A r \in sim'.h_sends :
              /\ (r.outcome = "partition") <=> (\E l \in r.links : l.faults.partitioned)
              /\ (r.outcome = "partition") => (r.events = {})]_vars

(* A Deliver sent before a Partition was dispatched reached on_message     *)
(* while the partition, which its src and dst cross, was in force.         *)
DeliveredAcrossPartition ==
    /\ sim.h_popped # <<>>
    /\ LastPopped(sim).payload.type = "Deliver"
    /\ sim.h_on_message > 0 /\ sim.h_dropped = 0
    /\ \E p \in sim.h_parts :
          /\ Crosses(p.sets, LastPopped(sim).payload.env)
          /\ LastPopped(sim).payload.env.msg_id < p.msg_mark

(* The Restart events among the events a step added to the queue. *)
NewRestarts ==
    {e \in sim'.queue \ Polled.queue :
        e.payload.type = "Fault" /\ e.payload.fault.type = "Restart"}

(* C15: the dispatch of Crash{n, duration} at clock t enqueues, when        *)
(* duration < MAX_SIM_TIME, exactly one Restart{n} with fire time           *)
(* t + duration and the Fault discriminant; when duration = MAX_SIM_TIME   *)
(* it enqueues no Restart and leaves n Down.                               *)
CrashEnqueuesPairedRestart ==
    [][(/\ Stepped
        /\ LastPopped(sim').payload.type = "Fault"
        /\ LastPopped(sim').payload.fault.type = "Crash"
        /\ sim'.panic = "none")
       => IF LastPopped(sim').payload.fault.duration < MAX_SIM_TIME
          THEN \E e \in NewRestarts :
                  /\ NewRestarts = {e}
                  /\ e.payload.fault.node_id = LastPopped(sim').payload.fault.node_id
                  /\ e.time = LastPopped(sim').time
                                 + LastPopped(sim').payload.fault.duration
                  /\ e.discriminant = EventDiscriminant_fault
          ELSE /\ NewRestarts = {}
               /\ sim'.nodes[LastPopped(sim').payload.fault.node_id].status = "Down"]_vars

(* C16: right after the dispatch of Restart{n}, whether n was Down or Up,  *)
(* n is Up and the only live timers of n are those set during the          *)
(* re-initialization (init, then on_fault(NodeRecovered)).                 *)
RestartLeavesOnlyNewTimers ==
    [][(/\ Stepped
        /\ LastPopped(sim').payload.type = "Fault"
        /\ LastPopped(sim').payload.fault.type = "Restart"
        /\ LastPopped(sim').payload.fault.node_id \in Nodes
        /\ sim'.panic = "none")
       => (/\ sim'.nodes[LastPopped(sim').payload.fault.node_id].status = "Up"
           /\ \A id \in LiveTimers(sim', LastPopped(sim').payload.fault.node_id) :
                  id >= Polled.id_gen.timer_id)]_vars

(* C17: a send_raw that returns, over a link that exists, is not           *)
(* partitioned and has drop and duplicate probability 0, made at clock c,  *)
(* enqueues exactly one Deliver of its envelope, with fire time            *)
(* c + base + jitter inside the bounds of the link's delay specs and with  *)
(* discriminant Delivery(src).                                             *)
SendEnqueuesOneDeliverInWindow ==
    \A r \in sim.h_sends : \A l \in r.links :
        (/\ ~l.faults.partitioned
         /\ l.faults.drop = ProbZero /\ l.faults.duplicate = ProbZero
         /\ r.outcome # "panicked")
        => \E e \in r.events :
              /\ r.events = {e}
              /\ e.payload.type = "Deliver" /\ e.payload.env = r.env
              /\ e.time >= r.clock + l.faults.base_delay.lo + l.faults.jitter.lo
              /\ e.time <= r.clock + l.faults.base_delay.hi + l.faults.jitter.hi
              /\ e.discriminant = EventDiscriminant_delivery(r.env.src)

(* No fault event has been dispatched in the run. *)
NoFaultDispatched(s) ==
    \A i \in 1 .. Len(s.h_popped) : s.h_popped[i].payload.type # "Fault"

DuplicateEnqueuesTwoDelivers ==
    LET DelayDraws(spec) == IF spec.kind = "Uniform" /\ spec.lo < spec.hi THEN 1 ELSE 0
    IN
    \A r \in sim.h_sends : \A l \in r.links :
        (/\ l.faults.duplicate = ProbOne /\ l.faults.drop = ProbZero
         /\ ~l.faults.partitioned
         /\ r.outcome # "panicked")
        => /\ Cardinality(r.events) = 2
           /\ \A e \in r.events :
                  /\ e.payload.type = "Deliver" /\ e.payload.env = r.env
                  /\ e.discriminant = EventDiscriminant_delivery(r.env.src)
           /\ r.msg_ids = 1
           /\ r.draws["net.delay.base"] = DelayDraws(l.faults.base_delay)
           /\ r.draws["net.delay.jitter"] = DelayDraws(l.faults.jitter)
           /\ r.draws["net.delay.dup"] = DelayDraws(l.faults.base_delay)

(* A send over a link with duplicate probability 1 and a uniform base      *)
(* delay enqueued two deliveries with different fire times.                *)
DuplicatedWithOwnDelay ==
    \E r \in sim.h_sends : \E l \in r.links :
        /\ l.faults.duplicate = ProbOne /\ l.faults.base_delay.kind = "Uniform"
        /\ r.outcome = "scheduled"
        /\ \E e1, e2 \in r.events : e1.time # e2.time

(* C20: under all store fault rates 0, an append_log succeeds and returns   *)
(* the number of earlier successful appends (the k-th returns k-1), and a  *)
(* read_log(i) returns Some(r) for the record r whose append returned i,   *)
(* whatever appends, kv_put, kv_get and fsync came between, and None for   *)
(* an index no append returned.                                            *)
StoreRoundTrip ==
    LET c == store.h_last
        a == store.h_appended
    IN  /\ (c.op = "append_log" /\ c.zero)
           => (c.ok /\ c.ret_idx = Len(a) - 1 /\ a[Len(a)].idx = c.ret_idx)
        /\ (c.op = "read_log" /\ c.zero)
           => /\ c.ok
              /\ \A k \in DOMAIN a :
                     a[k].idx = c.idx => (c.some /\ c.rec = a[k].rec)
              /\ (\A k \in DOMAIN a : a[k].idx # c.idx) => ~c.some

(* The first record was read back under rates 0 after a later append of a  *)
(* different record and a kv_put.                                          *)
ReadBackAfterInterleaving ==
    /\ store.h_last.op = "read_log" /\ store.h_last.zero
    /\ store.h_last.idx = 0 /\ store.h_last.some
    /\ Len(store.h_appended) = 2
    /\ store.h_appended[1].rec # store.h_appended[2].rec
    /\ store.mem.kv["k"].some

(* C21: a store call whose injected fault hits returns FaultInjected (a     *)
(* stale read: None) and leaves the store as it was.  A hit is certain at  *)
(* rate 1: append_log under write_error or torn_write rate 1, read_log     *)
(* under read_error rate 1 and fsync under fsync_fail rate 1 return the    *)
(* error, read_log under stale_read rate 1 (and no read error) returns     *)
(* None; a failed append appends nothing, so the appends that succeed are  *)
(* numbered as if it had not been made; and the calls stay available.      *)
StoreFaultHitReturnsError ==
    [][LET f == store.faults
           c == store'.h_last
       IN  /\ (c.op = "append_log"
                  /\ (f.write_error_rate = ProbOne \/ f.torn_write_rate = ProbOne))
              => ~c.ok
           /\ (c.op = "append_log" /\ ~c.ok)
              => (store'.mem = store.mem /\ store'.h_appended = store.h_appended)
           /\ (c.op = "append_log" /\ c.ok) => c.ret_idx = Len(store.h_appended)
           /\ (c.op = "read_log" /\ f.read_error_rate = ProbOne) => ~c.ok
           /\ (c.op = "read_log" /\ f.read_error_rate = ProbZero
                  /\ f.stale_read_rate = ProbOne) => (c.ok /\ ~c.some)
           /\ (c.op = "fsync" /\ f.fsync_fail_rate = ProbOne) => ~c.ok
           /\ c.op \in {"read_log", "fsync"} => store'.mem = store.mem
           /\ ENABLED StoreRead]_vars

(* An append failed on an injected fault with a record already in the log. *)
AppendFailedOnInjectedFault ==
    /\ store.h_last.op = "append_log" /\ ~store.h_last.ok
    /\ Len(store.mem.log) = 1
    /\ Len(store.h_appended) = 1

(* C22: a storage call on a node whose applicable fault rates are 0 draws  *)
(* no word from the master generator.                                      *)
StoreRateZeroElidesDraw ==
    [][LET f == store.faults
           c == store'.h_last
       IN  /\ (c.op = "append_log" /\ f.write_error_rate = ProbZero
                  /\ f.torn_write_rate = ProbZero) => c.draws = 0
           /\ (c.op = "read_log" /\ f.read_error_rate = ProbZero
                  /\ f.stale_read_rate = ProbZero) => c.draws = 0
           /\ (c.op = "fsync" /\ f.fsync_fail_rate = ProbZero) => c.draws = 0
           /\ c.op \in {"kv_put", "kv_get"} => c.draws = 0]_vars

(* C23: no scenario with a rate outside [0, 1] gets past validation, so   *)
(* no queued LinkModelUpdate carries such a probability and no send makes  *)
(* its drop trial with one.                                                *)
RatesWithinUnitRange ==
    /\ \A e \in sim.queue :
           (/\ e.payload.type = "Fault"
            /\ e.payload.fault.type = "LinkModelUpdate"
            /\ e.payload.fault.change = "SetDrop")
           => e.payload.fault.p \in ProbZero .. ProbOne
    /\ \A r \in sim.h_sends : \A l \in r.links :
           ~l.faults.partitioned => l.faults.drop \in ProbZero .. ProbOne

(* C25: a send_raw of a payload longer than the MTU configured on its link *)
(* enqueues no Deliver event.                                              *)
OversizeSendSchedulesNothing ==
    \A r \in sim.h_sends : \A l \in r.links :
        (l.faults.mtu_bytes.some /\ r.env.payload_len > l.faults.mtu_bytes.v)
        => r.events = {}

(* C24: after load_and_schedule the queue holds exactly the events the    *)
(* directives call for, taken in order with a running base b from 0: At(t, *)
(* a) gives a at t; After{offset, a} adds offset to b and gives a at b;    *)
(* Every{period, repeats, a} gives a at b + i * period for each i below    *)
(* repeats; all with the Fault discriminant, and with event ids and        *)
(* insertion sequence numbers in directive order.                          *)
ScenarioScheduledAsDirected ==
    pc \in {"loaded", "panicked"} =>
        LET sc == sim.h_scenario
            RECURSIVE Expected(_, _)
            Expected(i, b) ==
                IF i > Len(sc) THEN <<>>
                ELSE IF sc[i].kind = "At"
                THEN <<[time |-> sc[i].time, action |-> sc[i].action]>>
                         \o Expected(i + 1, b)
                ELSE IF sc[i].kind = "After"
                THEN <<[time |-> b + sc[i].offset, action |-> sc[i].action]>>
                         \o Expected(i + 1, b + sc[i].offset)
                ELSE [k \in 1 .. sc[i].repeats |->
                         [time |-> b + (k - 1) * sc[i].period, action |-> sc[i].action]]
                         \o Expected(i + 1, b)
            e == Expected(1, 0)
        IN sim.queue =
               {[id |-> k - 1, time |-> e[k].time, insert_seq |-> k - 1,
                 discriminant |-> EventDiscriminant_fault,
                 payload |-> [type |-> "Fault", fault |-> e[k].action]] :
                    k \in 1 .. Len(e)}

(* C26: every ctx.now() returns the clock plus the skew of the calling     *)
(* node, saturated to [0, MAX_SIM_TIME], for every signed skew (the least  *)
(* one included), and the skew it uses is the node's current one: inside   *)
(* the ClockSkewed callback, the skew the event has just set.              *)
NowIsSaturatedSkewedClock ==
    /\ sim.panic = "none"
    /\ sim.h_now.clock = sim.clock
    /\ sim.h_now.skew = sim.nodes[sim.h_now.node].clock_skew_ns
    /\ sim.h_now.v = IF sim.h_now.clock + sim.h_now.skew < 0 THEN 0
                     ELSE IF sim.h_now.clock + sim.h_now.skew > MAX_SIM_TIME
                     THEN MAX_SIM_TIME
                     ELSE sim.h_now.clock + sim.h_now.skew

(* C27: the ids of each kind (event, message, timer, insertion sequence)  *)
(* are handed out in strictly increasing order, in the order of the calls, *)
(* none twice; and the allocation that would take a counter past the end   *)
(* of its range aborts the run: no id follows it.                          *)
IdsStrictlyIncreasingOrAbort ==
    \A kind \in DOMAIN sim.h_ids :
        /\ \A i, j \in 1 .. Len(sim.h_ids[kind]) :
               i < j => sim.h_ids[kind][i] < sim.h_ids[kind][j]
        /\ \A i \in 1 .. Len(sim.h_ids[kind]) : sim.h_ids[kind][i] < sim.id_gen[kind]
        /\ Len(sim.h_ids[kind]) <= 2 ^ IdBits - 1

(* A counter reached the end of its range and the next allocation aborted  *)
(* the run, other kinds having been allocated in between.                  *)
IdOverflowAborted ==
    /\ sim.panic = "id overflow"
    /\ pc = "panicked"
    /\ \E kind \in DOMAIN sim.h_ids : Len(sim.h_ids[kind]) = 2 ^ IdBits - 1
    /\ \E kind \in DOMAIN sim.h_ids : Len(sim.h_ids[kind]) = 2

(* C28: a delivery dropped because its destination is Down is not counted *)
(* in messages_delivered: the metric equals the number of on_message       *)
(* invocations, which are made on Up nodes only.                           *)
DeliveredCountsOnMessageOnly ==
    sim.metrics.messages_delivered = sim.h_on_message

(* C29: the ring of recent events never holds more than 100 summaries,    *)
(* and after n calls of log_event it holds exactly the most recent         *)
(* min(n, 100) summaries, in the order they were logged.                   *)
RingHoldsMostRecent ==
    LET ring == sim.telemetry.recent_events
        n == Len(sim.h_logged)
        k == IF n < RingCap THEN n ELSE RingCap
    IN /\ Len(ring) <= RingCap
       /\ Len(ring) = k
       /\ \A i \in 1 .. k : ring[i] = sim.h_logged[n - k + i]

RingEvictedOldest ==
    /\ Len(sim.h_logged) > RingCap + 1
    /\ Len(sim.telemetry.recent_events) = RingCap
    /\ sim.telemetry.recent_events[1] = sim.h_logged[Len(sim.h_logged) - RingCap + 1]
    /\ sim.telemetry.recent_events[1] # sim.h_logged[1]

(* C30: while the mode is Paused and no Resume or Step has been sent, no   *)
(* event is popped: the clock, the world and every queued event stay as    *)
(* they are; each KillNode, RestartNode, InjectPartition or HealPartition  *)
(* received adds one event at the current clock with the Fault             *)
(* discriminant, which is not dispatched.                                  *)
PausedPopsNothing ==
    [][(/\ pc = "run"
        /\ sim.state = "Paused"
        /\ \A i \in DOMAIN control_rx : control_rx[i].type \notin {"Resume", "Step"})
       => LET added == sim'.queue \ sim.queue
              faults == {i \in DOMAIN control_rx :
                            control_rx[i].type \in {"KillNode", "RestartNode",
                                                   "InjectPartition", "HealPartition"}}
          IN /\ pc' = "run"
             /\ \A f \in DOMAIN sim \ {"queue", "id_gen"} : sim'[f] = sim[f]
             /\ sim.queue \subseteq sim'.queue
             /\ \A e \in added : /\ e.time = sim.clock
                                 /\ e.discriminant = EventDiscriminant_fault
                                 /\ e.payload.type = "Fault"
             /\ Cardinality(added) = IF control_rx' = <<>> THEN Cardinality(faults) ELSE 0
      ]_vars

FaultQueuedWhilePaused ==
    /\ pc = "run"
    /\ sim.state = "Paused"
    /\ control_rx = <<>>
    /\ sim.h_popped # <<>>
    /\ \E e \in sim.queue : /\ e.payload.type = "Fault"
                            /\ e.payload.fault.type = "Crash"
                            /\ e.time = sim.clock
                            /\ e.discriminant = EventDiscriminant_fault
    /\ \E e \in sim.queue : e.payload.type # "Fault" /\ e.time >= sim.clock

(* C31: k Step messages sent to a paused simulation with at least k        *)
(* queued events, and no other control message, get exactly k events       *)
(* processed however they are batched: when the loop has received them     *)
(* all and is Paused again, k more events have been popped.                *)
EachStepProcessesOneEvent ==
    [][(/\ pc = "run" /\ pc' = "run"
        /\ sim.state = "Paused"
        /\ control_rx # <<>>
        /\ \A i \in DOMAIN control_rx : control_rx[i].type = "Step"
        /\ Cardinality(sim.queue) >= Len(control_rx)
        /\ control_rx' = <<>>
        /\ sim'.state = "Paused")
       => Len(sim'.h_popped) = Len(sim.h_popped) + Len(control_rx)
      ]_vars

(* C32: a set_timer(after) on node n at clock c enqueues one                *)
(* TimerFired{n, id} with a fresh id, at c + after saturating, with         *)
(* discriminant Timer(n); when that event is popped while n is Up and the   *)
(* timer is still in n's book and not cancelled, on_timer(id) is invoked    *)
(* at the event's time, and it was never invoked for that id before.        *)
TimerFiresOnceWhenDue ==
    [][LET added == {e \in sim'.queue \ sim.queue : e.payload.type = "TimerFired"}
           popped == Len(sim'.h_popped) = Len(sim.h_popped) + 1
           ev == sim'.h_popped[Len(sim'.h_popped)]
       IN /\ \A e \in added :
                /\ e.payload.node_id \in Nodes
                /\ \E op \in ProtoOps(e.payload.node_id) :
                      /\ op.op = "set_timer"
                      /\ e.time = SaturatingAdd(sim'.clock, op.arg)
                /\ e.discriminant = EventDiscriminant_timer(e.payload.node_id)
                /\ e.payload.timer_id >= sim.id_gen.timer_id
                /\ e.payload.timer_id < sim'.id_gen.timer_id
                /\ \A o \in added \ {e} : o.payload.timer_id # e.payload.timer_id
          /\ (popped /\ ev.payload.type = "TimerFired")
                => LET n == ev.payload.node_id
                       id == ev.payload.timer_id
                   IN /\ sim'.h_last_timer.invoked => <<n, id>> \notin sim.h_on_timer
                      /\ (sim.nodes[n].status = "Up" /\ id \in LiveTimers(sim, n))
                            => /\ sim'.h_last_timer.invoked
                               /\ <<n, id>> \in sim'.h_on_timer
                               /\ sim'.clock = ev.time
      ]_vars

TimerDeliveredAtFireTime ==
    /\ sim.h_popped # <<>>
    /\ sim.h_popped[Len(sim.h_popped)].payload.type = "TimerFired"
    /\ sim.h_last_timer.invoked
    /\ sim.h_last_timer.live
    /\ sim.clock = sim.h_popped[Len(sim.h_popped)].time
    /\ sim.clock > SIM_EPOCH
    /\ <<sim.h_last_timer.node, sim.h_last_timer.timer_id>> \in sim.h_on_timer

(* C33: each press of the space key flips is_paused and sends exactly one  *)
(* control message, Pause when is_paused becomes true and Resume when it   *)
(* becomes false; is_paused is true iff the number of space presses so far *)
(* is odd.                                                                 *)
SpaceTogglesPause ==
    [][LET spaces(a) == Cardinality({i \in DOMAIN a.h_keys : a.h_keys[i] = " "})
       IN /\ app'.is_paused = (spaces(app') % 2 = 1)
          /\ app'.h_keys[Len(app'.h_keys)] = " "
                => /\ app'.is_paused = ~app.is_paused
                   /\ control_rx' = Append(control_rx,
                                           [type |-> IF app'.is_paused THEN "Pause"
                                                     ELSE "Resume"])
      ]_vars

PausedThenResumedByTwoPresses ==
    /\ pc = "tui"
    /\ Cardinality({i \in DOMAIN app.h_keys : app.h_keys[i] = " "}) = 2
    /\ ~app.is_paused
    /\ \E i, j \in DOMAIN control_rx :
          i < j /\ control_rx[i].type = "Pause" /\ control_rx[j].type = "Resume"

(* C34: the dispatch of a Crash or a Restart leaves the node's log and     *)
(* key-value contents as they were; under fault rates 0, after the Restart *)
(* a read_log of an index appended before the Crash returns the record     *)
(* appended there, a kv_get returns what the store holds for the key, and  *)
(* an append returns the next contiguous index.                            *)
StoreSurvivesCrash ==
    [][LET c == store'.h_last
           restarted == store.n_crashes > 0 /\ sim.nodes[0].status = "Up"
       IN /\ sim'.nodes[0].status # sim.nodes[0].status => store'.mem = store.mem
          /\ (restarted /\ c.op = "read_log" /\ c.zero /\ c.idx < Len(store.h_crash_log))
                => (c.ok /\ c.some /\ c.rec = store.h_crash_log[c.idx + 1])
          /\ (restarted /\ c.op = "kv_get")
                => (c.some = store.mem.kv["k"].some /\ c.rec = store.mem.kv["k"].v)
          /\ (restarted /\ c.op = "append_log" /\ c.zero)
                => (c.ok /\ c.ret_idx = Len(store.mem.log)
                         /\ c.ret_idx >= Len(store.h_crash_log))
      ]_vars

ReadBackAfterRestart ==
    /\ store.n_crashes > 0
    /\ sim.nodes[0].status = "Up"
    /\ store.h_last.op = "read_log" /\ store.h_last.zero
    /\ store.h_crash_log # <<>>
    /\ store.h_last.idx < Len(store.h_crash_log)
    /\ store.h_last.some
    /\ store.h_last.rec = store.h_crash_log[store.h_last.idx + 1]
    /\ store.mem.kv["k"].some

(* C35: a send_raw to the sender itself or to an id that is no node of    *)
(* the world finds no link: it enqueues nothing, draws nothing from the    *)
(* generator and does not abort, and it still takes one msg_id and counts  *)
(* one in messages_sent.                                                   *)
SendWithoutLinkOnlyCounts ==
    [][\A r \in sim'.h_sends \ sim.h_sends :
          (r.env.dst = r.env.src \/ r.env.dst \notin Nodes)
             => /\ r.links = {}
                /\ r.outcome = "no_link"
                /\ r.events = {}
                /\ \A site \in DOMAIN r.draws : r.draws[site] = 0
                /\ sim'.queue = sim.queue
                /\ sim'.rng = sim.rng
                /\ sim'.recorder = sim.recorder
                /\ sim'.panic = "none"
                /\ r.env.msg_id = sim.id_gen.msg_id
                /\ sim'.id_gen.msg_id = sim.id_gen.msg_id + 1
                /\ sim'.id_gen.event_id = sim.id_gen.event_id
                /\ sim'.metrics.messages_sent = sim.metrics.messages_sent + 1
      ]_vars

SentToSelfAndToInjector ==
    /\ \E r \in sim.h_sends : r.env.dst = r.env.src /\ r.outcome = "no_link"
    /\ \E r \in sim.h_sends : r.env.dst = NODE_ID_MAX /\ r.outcome = "no_link"
    /\ \E r \in sim.h_sends : r.outcome = "scheduled"
    /\ sim.metrics.messages_sent = Cardinality(sim.h_sends)
    /\ sim.panic = "none"

(* C36: a link's partitioned flag goes from true to false only in a        *)
(* HealPartition: a later Partition, a LinkModelUpdate, a Crash or a        *)
(* Restart clears none, and after a Partition the partitioned links are    *)
(* those that were partitioned before together with those its sets cut.    *)
OnlyHealClearsPartition ==
    [][LET cut(links) == {id \in DOMAIN links : links[id].faults.partitioned}
       IN /\ ~(cut(net.links) \subseteq cut(net'.links))
                => (sim' = sim /\ net'.h_op.type = "HealPartition")
          /\ (sim' = sim /\ net'.h_op.type = "Partition")
                => cut(net'.links) =
                       cut(net.links)
                           \cup {id \in DOMAIN net.links :
                                    LinkCrosses(net'.h_op.sets, net.links[id])}
      ]_vars

PartitionsAccumulated ==
    LET cut(links) == {id \in DOMAIN links : links[id].faults.partitioned}
        crossing == {id \in DOMAIN net.links : LinkCrosses(net.h_op.sets, net.links[id])}
    IN /\ net.h_op.type = "Partition"
       /\ cut(net.h_before) \ crossing # {}
       /\ crossing \ cut(net.h_before) # {}
       /\ cut(net.links) = cut(net.h_before) \cup crossing
       /\ net.h_updates > 0
       /\ net.links[0].faults.partitioned
       /\ net.links[0].faults # [LinkFaultModel_default EXCEPT !.partitioned = TRUE]
       /\ sim.nodes[0].status = "Down"

(* C37: the dispatch of a BroadcastBytes whose payload is valid hex (an    *)
(* even number of characters, all of them hex digits, once surrounding     *)
(* white space is trimmed) adds exactly one Deliver per node of the world, *)
(* Up or Down, each with src = MAX, a fresh msg_id, the time of the        *)
(* dispatch and the discriminant Delivery(MAX), draws nothing from the     *)
(* link models and leaves messages_sent; the dispatch of one whose payload *)
(* is not valid hex adds nothing and the run goes on.                      *)
BroadcastBytesDelivers ==
    [][(/\ pc = "bcast_run"
        /\ sim.queue # {}
        /\ QueuePeek(sim.queue).payload.type = "Fault"
        /\ QueuePeek(sim.queue).payload.fault.type = "BroadcastBytes")
       => LET ev == QueuePeek(sim.queue)
              cs == trim(ev.payload.fault.payload_hex)
              valid == Len(cs) % 2 = 0 /\ \A i \in DOMAIN cs : cs[i] \in HexDigits
              added == sim'.queue \ sim.queue
          IN /\ sim'.panic = "none"
             /\ pc' = "bcast_run"
             /\ sim'.queue = (sim.queue \ {ev}) \cup added
             /\ sim'.metrics.messages_sent = sim.metrics.messages_sent
             /\ sim'.rng = sim.rng
             /\ sim'.recorder = sim.recorder
             /\ sim'.nodes = sim.nodes
             /\ sim'.links = sim.links
             /\ IF valid
                THEN /\ Cardinality(added) = NumNodes
                     /\ \A e \in added :
                           /\ e.payload.type = "Deliver"
                           /\ e.payload.env.src = NODE_ID_MAX
                           /\ e.payload.env.msg_id >= sim.id_gen.msg_id
                           /\ e.payload.env.msg_id < sim'.id_gen.msg_id
                           /\ e.time = ev.time
                           /\ e.time = sim'.clock
                           /\ e.discriminant = EventDiscriminant_delivery(NODE_ID_MAX)
                     /\ \A n \in Nodes : \E e \in added : e.payload.env.dst = n
                     /\ \A e1, e2 \in added :
                           e1.payload.env.msg_id = e2.payload.env.msg_id => e1 = e2
                ELSE added = {}
      ]_vars

(* C38: once a UiSnapshotTick has been scheduled the queue is never empty, *)
(* the run is never Completed and the loop ends only in run_until; the     *)
(* dispatch of a tick puts the next one at clock + 50 ms with the UI       *)
(* discriminant and changes no node and no link.                           *)
SnapshotTickKeepsQueue ==
    /\ [](sim.h_ticks > 0
             => /\ sim.queue # {}
                /\ sim.state # "Completed"
                /\ pc = "done" => stop_at.some)
    /\ [][sim'.h_snapshots # sim.h_snapshots
             => /\ sim'.nodes = sim.nodes
                /\ sim'.links = sim.links
                /\ \E e \in sim'.queue \ sim.queue :
                      /\ e.payload.type = "UiSnapshotTick"
                      /\ e.time = sim'.clock + SnapshotPeriodMs * NsPerMs
                      /\ e.discriminant = EventDiscriminant_ui]_vars

SecondTickQueued ==
    /\ pc = "run"
    /\ ~stop_at.some
    /\ sim.h_snapshots > 0
    /\ \E e \in sim.queue : /\ e.payload.type = "UiSnapshotTick"
                            /\ e.time = SnapshotPeriodMs * NsPerMs
    /\ \A e \in sim.queue : e.payload.type = "UiSnapshotTick"

(* C39: the dispatch of a LinkModelUpdate changes only the named field of  *)
(* the named link: every other link, that link's ends, its partitioned     *)
(* flag and its other fields, all nodes and the queue stay, and for an id  *)
(* that names no link nothing changes and the run goes on; the dispatch of *)
(* a StoreFault changes only the rate of its kind in the store fault model *)
(* of its node.                                                            *)
UpdateFaultsChangeOneField ==
    [][(sim'.metrics.faults_injected # sim.metrics.faults_injected
           /\ sim'.h_last_call[1].type \in {"LinkModelUpdate", "StoreFault"})
       => LET f == sim'.h_last_call[1]
              field == IF f.type = "LinkModelUpdate"
                       THEN [SetDelay |-> "base_delay", SetDrop |-> "drop",
                             SetDuplicate |-> "duplicate",
                             SetCorrupt |-> "corrupt"][f.change]
                       ELSE [WriteError |-> "write_error_rate",
                             TornWrite |-> "torn_write_rate",
                             StaleRead |-> "stale_read_rate",
                             ReadError |-> "read_error_rate",
                             FsyncFail |-> "fsync_fail_rate",
                             FsyncDelay |-> "fsync_delay_rate"][f.kind]
              value == IF f.type = "StoreFault" THEN f.rate
                       ELSE IF f.change = "SetDelay" THEN f.spec ELSE f.p
          IN /\ sim'.panic = "none"
             /\ pc' = "unit"
             /\ sim'.queue = sim.queue
             /\ sim'.clock = sim.clock
             /\ sim'.rng = sim.rng
             /\ IF f.type = "LinkModelUpdate"
                THEN /\ sim'.nodes = sim.nodes
                     /\ DOMAIN sim'.links = DOMAIN sim.links
                     /\ \A id \in DOMAIN sim.links :
                           IF id # f.link_id THEN sim'.links[id] = sim.links[id]
                           ELSE /\ [sim'.links[id] EXCEPT !.faults = sim.links[id].faults]
                                       = sim.links[id]
                                /\ DOMAIN sim'.links[id].faults
                                       = DOMAIN sim.links[id].faults
                                /\ \A k \in DOMAIN sim.links[id].faults :
                                       sim'.links[id].faults[k]
                                           = IF k = field THEN value
                                             ELSE sim.links[id].faults[k]
                ELSE /\ sim'.links = sim.links
                     /\ \A n \in Nodes :
                           IF n # f.node_id THEN sim'.nodes[n] = sim.nodes[n]
                           ELSE /\ [sim'.nodes[n] EXCEPT
                                       !.store_faults = sim.nodes[n].store_faults]
                                       = sim.nodes[n]
                                /\ DOMAIN sim'.nodes[n].store_faults
                                       = DOMAIN sim.nodes[n].store_faults
                                /\ \A k \in DOMAIN sim.nodes[n].store_faults :
                                       sim'.nodes[n].store_faults[k]
                                           = IF k = field THEN value
                                             ELSE sim.nodes[n].store_faults[k]
      ]_vars

UpdatedPartitionedLinkAndStore ==
    /\ sim.queue # {}
    /\ sim.nodes[0].status = "Down"
    /\ sim.links[0].faults = [LinkFaultModel_default EXCEPT !.partitioned = TRUE,
                                                            !.drop = ProbOne]
    /\ sim.h_last_call # <<>>
    /\ sim.h_last_call[1].type = "StoreFault"
    /\ sim.h_last_call[1].node_id = 0
    /\ sim.nodes[0].store_faults
           = [StoreFaultModel_default EXCEPT !.stale_read_rate = ProbOne]
    /\ sim.nodes[1].store_faults = StoreFaultModel_default

(* C40: in every reachable state of a node's timer book the cancelled     *)
(* timer ids are among the active ones, so the count of live timers, the   *)
(* number of active ids less the number of cancelled ids, is never below   *)
(* zero.                                                                   *)
CanceledWithinActive ==
    \A n \in Nodes :
        /\ sim.nodes[n].timers.canceled_timers \subseteq sim.nodes[n].timers.active_timers
        /\ Cardinality(sim.nodes[n].timers.active_timers)
               - Cardinality(sim.nodes[n].timers.canceled_timers) >= 0

CanceledTimerFired ==
    /\ sim.h_last_call # <<>>
    /\ sim.h_last_call[1].type = "fire_timer"
    /\ ~sim.h_last_call[1].v
    /\ sim.nodes[0].timers.canceled_timers # {}
    /\ sim.nodes[0].timers.canceled_timers # sim.nodes[0].timers.active_timers

====
